---- MODULE Spec2Model ----
(***************************************************************************)
(* Chunking, cross-chunk memory and terminology merge of the subtitle      *)
(* refiner: chunker.py (chunk_pairs), memory.py (update_global_memory,     *)
(* GlobalMemory), llm_client.py (compress_memory), prompts.py (rendering   *)
(* of the memory), config.py (credential) and the batch loop of            *)
(* process_subtitles (main.py, experiment/main_sdk.py).                    *)
(*                                                                         *)
(* Strings that the code inspects (glossary terms) are sequences of        *)
(* one-character strings, so that strip() and casefold() are computed.     *)
(* Confidence values are in tenths (0.6 is 6).                             *)
(***************************************************************************)
EXTENDS Integers, Sequences, FiniteSets, TLC

VARIABLES
    pc,                 \* position in main and process_subtitles
    pairs,              \* the Pair Store: sequence of [id, tokens, text]
    config,             \* the Config record, with the files it names
    OPENAI_API_KEY,     \* the environment variable: None when not set
    base_prompt_tokens, \* estimate_base_prompt_tokens(config, global_memory)
    chunks,             \* the batch list returned by chunk_pairs
    i,                  \* index (0-based) of the batch being processed
    global_memory,      \* GlobalMemory: user_glossary, glossary, style_notes, summary
    new_terms,          \* update_global_memory's new_terms, as the merge left them
    report,             \* update_global_memory's counters, as the merge left them
    total_usage,        \* accumulated UsageStats, in calls' worth of tokens
    system_prompt,      \* memory text of the prompt refine_chunk built in the last step
    compress_response,  \* the response compress_memory received in the last step
    warning,            \* the warning the last step printed, "" for none
    attempted,          \* history: batch indexes handed to refine_chunk
    learned,            \* history: source terms accepted so far in the run
    call,               \* a function called on its own: its name, arguments and locals
    result              \* what that function returned or raised, None before

vars == <<pc, pairs, config, OPENAI_API_KEY, base_prompt_tokens, chunks, i,
          global_memory, new_terms, report, total_usage, system_prompt,
          compress_response, warning, attempted, learned, call, result>>

----------------------------------------------------------------------------
(* Bounds of the model *)

MaxLen == 4        \* longest input with arbitrary per-pair estimates
MaxConstLen == 15  \* longest input with a constant per-pair estimate
MaxTerms == 2      \* most items in one response of the terminology oracle
RunPairs == 3      \* pairs (and batches) of a modelled run
MaxLines == 3      \* most lines of a template text
MaxRetries == 4    \* largest max_retries of a call of call_openai_api

\* Optional[int] settings: None is the empty sequence, an integer n is <<n>>
None == <<>>
Some(n) == <<n>>

----------------------------------------------------------------------------
(* Generic helpers *)

Min(a, b) == IF a < b THEN a ELSE b

Range(s) == {s[k] : k \in 1..Len(s)}

RECURSIVE Flatten(_)
Flatten(ss) == IF ss = <<>> THEN <<>> ELSE Head(ss) \o Flatten(Tail(ss))

RECURSIVE SumTokens(_)
SumTokens(s) == IF s = <<>> THEN 0 ELSE Head(s).tokens + SumTokens(Tail(s))

\* Sequences over S of length 0..n
SeqUpTo(S, n) == UNION {[1..k -> S] : k \in 0..n}

----------------------------------------------------------------------------
(* chunker.py *)

\* utils.estimate_pair_tokens: the token count of the pair's JSON text.  The
\* pair's text is carried as its token count, so the estimate is a fixed
\* function of the pair.
estimate_pair_tokens(pair) == pair.tokens

\* chunker.py:48
safety_margin == 1000

\* Fault variant of max_chunk_tokens: the safety margin is not reserved
max_chunk_tokens_noMargin(cfg, base) == cfg.chunk_token_soft_limit - base

\* chunker.py:47-49
max_chunk_tokens(cfg, base) == (cfg.chunk_token_soft_limit - base) - safety_margin

\* chunker.py:55: the test that closes the current chunk
ExceedsLimit(current_chunk, current_chunk_tokens, pair_tokens, limit) ==
    current_chunk # <<>> /\ current_chunk_tokens + pair_tokens > limit

\* Fault variant of ChunkStep: a new chunk does not count its first pair
ChunkStep_forgetTokens(st, pair, limit) ==
    LET pair_tokens == estimate_pair_tokens(pair) IN
    IF ExceedsLimit(st.current_chunk, st.current_chunk_tokens, pair_tokens, limit)
    THEN [chunks |-> Append(st.chunks, st.current_chunk),
          current_chunk |-> <<pair>>,
          current_chunk_tokens |-> 0]
    ELSE [chunks |-> st.chunks,
          current_chunk |-> Append(st.current_chunk, pair),
          current_chunk_tokens |-> st.current_chunk_tokens + pair_tokens]

\* chunker.py:55-63: one iteration of the loop over pairs; the loop state is
\* [chunks, current_chunk, current_chunk_tokens]
ChunkStep(st, pair, limit) ==
    LET pair_tokens == estimate_pair_tokens(pair) IN
    IF ExceedsLimit(st.current_chunk, st.current_chunk_tokens, pair_tokens, limit)
    THEN [chunks |-> Append(st.chunks, st.current_chunk),
          current_chunk |-> <<pair>>,
          current_chunk_tokens |-> pair_tokens]
    ELSE [chunks |-> st.chunks,
          current_chunk |-> Append(st.current_chunk, pair),
          current_chunk_tokens |-> st.current_chunk_tokens + pair_tokens]

\* chunker.py:51-63: the loop, from pair k on
RECURSIVE ChunkLoop(_, _, _, _)
ChunkLoop(ps, k, st, limit) ==
    IF k > Len(ps) THEN st
    ELSE ChunkLoop(ps, k + 1, ChunkStep(st, ps[k], limit), limit)

\* Fault variant of ChunkFinish: the last chunk is forgotten
ChunkFinish_dropLast(st) == st.chunks

\* chunker.py:65-69: the last chunk
ChunkFinish(st) ==
    IF st.current_chunk # <<>> THEN Append(st.chunks, st.current_chunk)
    ELSE st.chunks

\* chunker.py:41-69: token-based chunking
chunk_pairs_by_tokens(ps, cfg, base) ==
    ChunkFinish(ChunkLoop(ps, 1,
        [chunks |-> <<>>, current_chunk |-> <<>>, current_chunk_tokens |-> 0],
        max_chunk_tokens(cfg, base)))

\* Fault variant of Slice: the slice is taken back to front
Slice_reversed(ps, lo, n) ==
    LET hi == Min(lo + n, Len(ps))
    IN  [k \in 1..(hi - lo) |-> ps[hi - k + 1]]

\* chunker.py:87-88: the slice pairs[i:i + pairs_per_chunk], i 0-based
Slice(ps, lo, n) == SubSeq(ps, lo + 1, Min(lo + n, Len(ps)))

\* Fault variant of chunk_pairs_by_count: the remainder is not chunked
chunk_pairs_by_count_floor(ps, pairs_per_chunk) ==
    LET nchunks == Len(ps) \div pairs_per_chunk
    IN  [b \in 1..nchunks |-> Slice(ps, (b - 1) * pairs_per_chunk, pairs_per_chunk)]

\* chunker.py:72-90: range(0, len(pairs), pairs_per_chunk)
chunk_pairs_by_count(ps, pairs_per_chunk) ==
    LET nchunks == (Len(ps) + pairs_per_chunk - 1) \div pairs_per_chunk
    IN  [b \in 1..nchunks |-> Slice(ps, (b - 1) * pairs_per_chunk, pairs_per_chunk)]

\* chunker.py:37
UseCount(cfg) == cfg.pairs_per_chunk # None /\ cfg.pairs_per_chunk[1] > 0

\* chunker.py:14-69
chunk_pairs(ps, cfg, base) ==
    IF ps = <<>> THEN <<>>
    ELSE IF UseCount(cfg) THEN chunk_pairs_by_count(ps, cfg.pairs_per_chunk[1])
    ELSE chunk_pairs_by_tokens(ps, cfg, base)

----------------------------------------------------------------------------
\* sorted() of a list of integers
RECURSIVE sorted(_)
sorted(ids) ==
    IF ids = <<>> THEN <<>>
    ELSE LET rest == sorted(Tail(ids))
             below == Cardinality({k \in 1..Len(rest) : rest[k] < Head(ids)})
         IN  SubSeq(rest, 1, below) \o <<Head(ids)>> \o SubSeq(rest, below + 1, Len(rest))

\* chunker.py:165-192: the flattened batches have as many pairs as the
\* original list, and the same sorted ids
validate_chunks(original_pairs, chunk_list) ==
    LET chunked_pairs == Flatten(chunk_list)
        original_ids == sorted([k \in 1..Len(original_pairs) |-> original_pairs[k].id])
        chunked_ids == sorted([k \in 1..Len(chunked_pairs) |-> chunked_pairs[k].id])
    IN  IF Len(chunked_pairs) # Len(original_pairs) THEN FALSE
        ELSE original_ids = chunked_ids

----------------------------------------------------------------------------

(* Strings: sequences of one-character strings *)

\* str.casefold on one character of the model's alphabet
FoldChar(c) ==
    CASE c = "A" -> "a"
      [] c = "B" -> "b"
      [] c = "C" -> "c"
      [] c = "D" -> "d"
      [] OTHER -> c

\* str.casefold
casefold(s) == [k \in 1..Len(s) |-> FoldChar(s[k])]

RECURSIVE lstrip(_)
lstrip(s) == IF s # <<>> /\ Head(s) = " " THEN lstrip(Tail(s)) ELSE s

RECURSIVE rstrip(_)
rstrip(s) ==
    IF s # <<>> /\ s[Len(s)] = " " THEN rstrip(SubSeq(s, 1, Len(s) - 1)) ELSE s

\* str.strip
strip(s) == rstrip(lstrip(s))

\* str.lower on the category names of the model
lower(t) == IF t = "Person" THEN "person" ELSE t

\* len() of a category name
TypeLen(t) ==
    CASE t = "person" -> 6
      [] t = "place" -> 5
      [] OTHER -> 0

----------------------------------------------------------------------------
(* memory.py: GlobalMemory and terminology extraction *)

\* memory.py:57-69
init_global_memory ==
    [user_glossary |-> <<>>, glossary |-> <<>>, style_notes |-> <<>>, summary |-> <<>>]

\* dict.get(key, default) on a JSON object
Get(data, key, default) == IF key \in DOMAIN data THEN data[key] ELSE default

\* JSON values: an object is a record of its keys; a string where an object
\* is expected is the record [str |-> s]; parsed text is tagged with its kind
JsonString(s) == [str |-> s]
IsDict(x) == "str" \notin DOMAIN x
JsonDict(value) == [kind |-> "dict", value |-> value]
JsonList(value) == [kind |-> "list", value |-> value]

\* memory.py:42-50
from_dict(data) ==
    [user_glossary |-> Get(data, "user_glossary", <<>>),
     glossary |-> Get(data, "glossary", <<>>),
     style_notes |-> Get(data, "style_notes", <<>>),
     summary |-> Get(data, "summary", <<>>)]

\* memory.py:93-104 (the categories the model uses)
VALID_TERMINOLOGY_TYPES == {"person", "place", "organization", "title", "acronym",
                            "unit", "ship", "project", "law", "other"}

\* config.py:61 (0.6, in tenths)
terminology_min_confidence == 6

\* Fault variant of ParseItem: an entry at the threshold is dropped
ParseItem_dropsBoundary(item, min_confidence) ==
    LET eng == strip(item.eng)
        zh == strip(item.zh)
        type_value == lower(item.type)
    IN  IF eng = <<>> \/ zh = <<>> THEN <<>>
        ELSE IF item.confidence <= min_confidence THEN <<>>
        ELSE IF type_value \notin VALID_TERMINOLOGY_TYPES THEN <<>>
        ELSE <<[eng |-> eng, zh |-> zh, type |-> type_value,
                confidence |-> item.confidence]>>

\* memory.py:137-163: one raw item; <<>> when it is skipped, else the entry.
\* evidence_ids are not read by the merge and are left out of the entry.
ParseItem(item, min_confidence) ==
    LET eng == strip(item.eng)
        zh == strip(item.zh)
        type_value == lower(item.type)
    IN  IF eng = <<>> \/ zh = <<>> THEN <<>>
        ELSE IF item.confidence < min_confidence THEN <<>>
        ELSE IF type_value \notin VALID_TERMINOLOGY_TYPES THEN <<>>
        ELSE <<[eng |-> eng, zh |-> zh, type |-> type_value,
                confidence |-> item.confidence]>>

\* memory.py:127-165
RECURSIVE _parse_terminology_entries(_, _)
_parse_terminology_entries(raw_data, min_confidence) ==
    IF raw_data = <<>> THEN <<>>
    ELSE ParseItem(Head(raw_data), min_confidence)
         \o _parse_terminology_entries(Tail(raw_data), min_confidence)

----------------------------------------------------------------------------
(* memory.py: update_global_memory, the merge under the glossary policy *)

\* Fault variant of UserKey: the key is not case-folded
UserKey_noFold(entry) == strip(entry.eng)

\* memory.py:269: the key of a user glossary entry in user_map
UserKey(entry) == casefold(strip(entry.eng))

\* memory.py:269: the keys of user_map
UserMapKeys(user_glossary) == {UserKey(e) : e \in Range(user_glossary)}

\* memory.py:269, 291: user_map[eng_key]; a dict comprehension keeps the last
\* entry of a key
UserMapGet(user_glossary, eng_key) ==
    LET hits == {k \in 1..Len(user_glossary) : UserKey(user_glossary[k]) = eng_key}
        last == CHOOSE k \in hits : \A j \in hits : j <= k
    IN  user_glossary[last]

\* Fault variant of Locked: the user glossary locks nothing
Locked_never(policy, eng_key, user_glossary) == FALSE

\* memory.py:290
Locked(policy, eng_key, user_glossary) ==
    policy = "lock" /\ eng_key \in UserMapKeys(user_glossary)

\* memory.py:292
IsConflict(user_zh, zh) == user_zh # <<>> /\ user_zh # zh

\* Fault variant of AlreadyLearned: learned terms are not looked up
AlreadyLearned_never(eng, existing_terms) == FALSE

\* memory.py:301
AlreadyLearned(eng, existing_terms) == eng \in existing_terms

\* memory.py:283-307: one iteration of the loop over new_terms; the loop state
\* is [glossary, existing_terms, added, skipped_conflict, skipped_user_dup,
\* skipped_existing]
MergeStep(st, term, user_glossary, policy) ==
    LET eng == strip(term.eng)
        zh == strip(term.zh)
        eng_key == casefold(eng)
    IN  IF eng = <<>> \/ zh = <<>> THEN st
        ELSE IF Locked(policy, eng_key, user_glossary)
        THEN IF IsConflict(strip(UserMapGet(user_glossary, eng_key).zh), zh)
             THEN [st EXCEPT !.skipped_conflict = @ + 1]
             ELSE [st EXCEPT !.skipped_user_dup = @ + 1]
        ELSE IF AlreadyLearned(eng, st.existing_terms)
        THEN [st EXCEPT !.skipped_existing = @ + 1]
        ELSE [st EXCEPT !.glossary = Append(@, term),
                        !.existing_terms = @ \cup {eng},
                        !.added = @ + 1]

\* memory.py:282-307: the loop, from proposal k on
RECURSIVE MergeLoop(_, _, _, _, _)
MergeLoop(terms, k, st, user_glossary, policy) ==
    IF k > Len(terms) THEN st
    ELSE MergeLoop(terms, k + 1, MergeStep(st, terms[k], user_glossary, policy),
                   user_glossary, policy)

\* Fault variant of Evict: one entry too many is kept; glossary[-(n + 1):]
Evict_oneTooMany(glossary, max_glossary_entries) ==
    IF max_glossary_entries # 0 /\ max_glossary_entries > 0
    THEN IF Len(glossary) > max_glossary_entries + 1
         THEN SubSeq(glossary, Len(glossary) - max_glossary_entries, Len(glossary))
         ELSE glossary
    ELSE glossary

\* Fault variant of Evict: the oldest entries are kept; glossary[:n]
Evict_keepOldest(glossary, max_glossary_entries) ==
    IF max_glossary_entries # 0 /\ max_glossary_entries > 0
    THEN IF Len(glossary) > max_glossary_entries
         THEN SubSeq(glossary, 1, max_glossary_entries)
         ELSE glossary
    ELSE glossary

\* memory.py:311-314: keep the most recent entries; glossary[-n:]
Evict(glossary, max_glossary_entries) ==
    IF max_glossary_entries # 0 /\ max_glossary_entries > 0
    THEN IF Len(glossary) > max_glossary_entries
         THEN SubSeq(glossary, Len(glossary) - max_glossary_entries + 1, Len(glossary))
         ELSE glossary
    ELSE glossary

\* memory.py:268-324: the merge of the extracted terms into the memory;
\* returns the loop state with the glossary after eviction
MergeTerms(memory, terms, cfg) ==
    LET st0 == [glossary |-> memory.glossary,
                existing_terms |-> {e.eng : e \in Range(memory.glossary)},
                added |-> 0, skipped_conflict |-> 0, skipped_user_dup |-> 0,
                skipped_existing |-> 0]
        st == MergeLoop(terms, 1, st0, memory.user_glossary, cfg.glossary_policy)
    IN  [st EXCEPT !.glossary = Evict(@, cfg.glossary_max_entries)]

----------------------------------------------------------------------------
(* prompts.py build_memory_section and memory.py estimate_memory_tokens *)

RECURSIVE SumLen(_, _)
SumLen(entries, with_type) ==
    IF entries = <<>> THEN 0
    ELSE LET e == Head(entries)
             \* prompts.py:133-134, 143-145: "- {eng}: {zh}" or "- {eng} ({type}): {zh}"
             line == IF e.eng # <<>> /\ e.zh # <<>>
                     THEN 4 + Len(e.eng) + Len(e.zh)
                          + (IF with_type /\ TypeLen(e.type) > 0
                             THEN 3 + TypeLen(e.type) ELSE 0)
                     ELSE 0
         IN  line + SumLen(Tail(entries), with_type)

\* prompts.py:111-155: len() of the text build_memory_section returns
MemorySectionLen(memory) ==
    (IF memory.user_glossary # <<>> THEN 39 + SumLen(memory.user_glossary, FALSE) ELSE 0)
    + (IF memory.glossary # <<>> THEN 39 + SumLen(memory.glossary, TRUE) ELSE 0)
    + (IF memory.style_notes # <<>> THEN 24 + Len(memory.style_notes) ELSE 0)
    + (IF memory.summary # <<>> THEN 15 + Len(memory.summary) ELSE 0)

\* utils.py:32-48: the tokenizer is external; the model counts as the
\* fallback does, len(text) // 4
estimate_tokens(text_len) == text_len \div 4

\* memory.py:327-342
estimate_memory_tokens(memory) == estimate_tokens(MemorySectionLen(memory))

\* Fault variant of validate_memory_structure: any object passes
validate_memory_structure_anyObject(memory_dict) == memory_dict.kind = "dict"

\* memory.py:358-359: the character cap of style notes and summary
NotesCap == 500

\* seq[-n:] and seq[:n] for n >= 0: seq[-0:] is seq[0:], the whole list
LastSlice(seq, n) ==
    IF n = 0 THEN seq
    ELSE SubSeq(seq, (IF Len(seq) > n THEN Len(seq) - n + 1 ELSE 1), Len(seq))

FirstSlice(seq, n) == SubSeq(seq, 1, Min(n, Len(seq)))

\* memory.py:345-362: a new GlobalMemory; user_glossary is not passed and
\* takes its default
compress_memory_simple(memory, max_entries) ==
    [user_glossary |-> <<>>,
     glossary |-> IF memory.glossary # <<>> THEN LastSlice(memory.glossary, max_entries)
                  ELSE <<>>,
     style_notes |-> IF memory.style_notes # <<>> THEN FirstSlice(memory.style_notes, NotesCap)
                     ELSE <<>>,
     summary |-> IF memory.summary # <<>> THEN FirstSlice(memory.summary, NotesCap) ELSE <<>>]

\* memory.py:397-425: memory_dict is parsed JSON
validate_memory_structure(memory_dict) ==
    /\ memory_dict.kind = "dict"
    /\ "glossary" \in DOMAIN memory_dict.value
    /\ \A k \in 1..Len(memory_dict.value.glossary) :
          /\ IsDict(memory_dict.value.glossary[k])
          /\ {"eng", "zh"} \subseteq DOMAIN memory_dict.value.glossary[k]

\* prompts.py:127-146: build_memory_section calls entry.get on every entry
\* of both glossaries; on an entry that is no object it raises AttributeError
Renderable(memory) ==
    /\ \A k \in 1..Len(memory.user_glossary) : IsDict(memory.user_glossary[k])
    /\ \A k \in 1..Len(memory.glossary) : IsDict(memory.glossary[k])

----------------------------------------------------------------------------
(* utils.py extract_json_from_response, on the text of a JSON object *)

\* len() of the JSON text of the objects of an array, each with the ", "
\* or the bracket that follows it
RECURSIVE JsonItemsLen(_)
JsonItemsLen(items) ==
    IF items = <<>> THEN 0
    ELSE LET e == Head(items)
         IN  2 + (IF "eng" \in DOMAIN e THEN 11 + Len(e.eng) ELSE 0)
               + (IF "zh" \in DOMAIN e THEN 10 + Len(e.zh) ELSE 0)
               + (IF "type" \in DOMAIN e THEN 12 + TypeLen(e.type) ELSE 0)
               + (IF "confidence" \in DOMAIN e THEN 19 ELSE 0)
               + JsonItemsLen(Tail(items))

\* len() of the JSON text of an array of objects
JsonArrayLen(items) == IF items = <<>> THEN 2 ELSE JsonItemsLen(items)

\* utils.py:110-112: re.findall of \[\s*\{.*?\}\s*\] in the text of the
\* object body, in key order: its arrays of objects.  (An empty array, an
\* array of strings and the object itself do not match.)
ArrayMatches(body) ==
    LET keys == <<"user_glossary", "glossary">>
        Matches(key) == key \in DOMAIN body /\ body[key] # <<>>
                        /\ \A k \in 1..Len(body[key]) : IsDict(body[key][k])
    IN  (IF Matches(keys[1]) THEN <<body[keys[1]]>> ELSE <<>>)
        \o (IF Matches(keys[2]) THEN <<body[keys[2]]>> ELSE <<>>)

\* max(matches, key=len): the first of the longest
LongestMatch(matches) ==
    matches[CHOOSE k \in 1..Len(matches) :
                /\ \A j \in 1..Len(matches) :
                      JsonArrayLen(matches[j]) <= JsonArrayLen(matches[k])
                /\ \A j \in 1..(k - 1) :
                      JsonArrayLen(matches[j]) < JsonArrayLen(matches[k])]

\* utils.py:99-132: the longest array of objects found in the text, else
\* None (the text of a bare object is neither a code block nor an array)
extract_json_from_response(body) ==
    IF ArrayMatches(body) # <<>> THEN Some(LongestMatch(ArrayMatches(body))) ELSE None

----------------------------------------------------------------------------
(* prompts.py: the terminology section injected into the template *)

\* prompts.py:347, 352: the key of an entry in _merge_glossaries
MergeKey(entry) == casefold(entry.eng)

\* The entries of seq at the positions of S from k on, in order
RECURSIVE KeepAt(_, _, _)
KeepAt(seq, k, S) ==
    IF k > Len(seq) THEN <<>>
    ELSE (IF k \in S THEN <<seq[k]>> ELSE <<>>) \o KeepAt(seq, k + 1, S)

\* prompts.py:328-373: template order with the user's overrides, then the
\* user's entries whose key the template lacks
_merge_glossaries(template_glossary, user_glossary) ==
    LET all == template_glossary \o user_glossary
        \* merged[key]: the entry written last under the key
        merged(key) ==
            all[CHOOSE k \in 1..Len(all) :
                    /\ MergeKey(all[k]) = key
                    /\ \A j \in (k + 1)..Len(all) : MergeKey(all[j]) # key]
        FirstInTemplate ==
            {k \in 1..Len(template_glossary) :
                \A j \in 1..(k - 1) :
                    MergeKey(template_glossary[j]) # MergeKey(template_glossary[k])}
        NewUserKey ==
            {k \in 1..Len(user_glossary) :
                /\ \A j \in 1..Len(template_glossary) :
                      MergeKey(template_glossary[j]) # MergeKey(user_glossary[k])
                /\ \A j \in 1..(k - 1) :
                      MergeKey(user_glossary[j]) # MergeKey(user_glossary[k])}
        FromTemplate == KeepAt(template_glossary, 1, FirstInTemplate)
    IN  [k \in 1..Len(FromTemplate) |-> merged(MergeKey(FromTemplate[k]))]
        \o KeepAt(user_glossary, 1, NewUserKey)

\* prompts.py:376-411: the lines of the section; a line is the entry it
\* shows.  len is len() of the text, the lines joined by newlines
_build_terminology_section(user_glossary, learned_glossary) ==
    LET Shown(seq) ==
            KeepAt(seq, 1, {k \in 1..Len(seq) : seq[k].eng # <<>> /\ seq[k].zh # <<>>})
        authoritative == Shown(user_glossary)
        supplement == Shown(learned_glossary)
        \* "" before the supplement, and its header of 37 characters
        blank == IF learned_glossary # <<>> /\ authoritative # <<>> THEN 1 ELSE 0
        header == IF learned_glossary # <<>> THEN 1 ELSE 0
        lines == Len(authoritative) + blank + header
                 + (IF learned_glossary # <<>> THEN Len(supplement) ELSE 0)
    IN  [authoritative |-> authoritative,
         supplement |-> IF learned_glossary # <<>> THEN supplement ELSE <<>>,
         len |-> SumLen(authoritative, FALSE) + 37 * header
                 + (IF learned_glossary # <<>> THEN SumLen(supplement, TRUE) ELSE 0)
                 + (IF lines > 0 THEN lines - 1 ELSE 0)]

\* prompts.py:442-494, with the terminology section present in the
\* template: the new content of the section
inject_memory_into_template(template_glossary, memory) ==
    _build_terminology_section(
        _merge_glossaries(template_glossary, memory.user_glossary),
        memory.glossary)

\* Fault variant of build_system_prompt: the memory is left out
build_system_prompt_noMemory(memory, cfg) ==
    inject_memory_into_template(cfg.template_glossary, init_global_memory)

\* prompts.py:497-526, the template file found
build_system_prompt(memory, cfg) ==
    inject_memory_into_template(cfg.template_glossary, memory)

----------------------------------------------------------------------------
(* prompts.py: the template as text.  A text is a sequence of tokens: one   *)
(* character each, "\n" for a line break, or a word that the code never     *)
(* looks into (a title, a category name)                                    *)

Digits == <<"0", "1", "2", "3", "4", "5", "6", "7", "8", "9">>

\* str(n) for n >= 0
RECURSIVE Str(_)
Str(n) == IF n < 10 THEN <<Digits[n + 1]>> ELSE Str(n \div 10) \o <<Digits[(n % 10) + 1]>>

\* The index of the first line break of text, 0 when it has none
RECURSIVE FirstBreak(_, _)
FirstBreak(text, k) ==
    IF k > Len(text) THEN 0 ELSE IF text[k] = "\n" THEN k ELSE FirstBreak(text, k + 1)

\* str.splitlines: the lines without their line breaks; a final line break
\* opens no further line
RECURSIVE splitlines(_)
splitlines(text) ==
    IF text = <<>> THEN <<>>
    ELSE LET b == FirstBreak(text, 1)
         IN  IF b = 0 THEN <<text>>
             ELSE <<SubSeq(text, 1, b - 1)>> \o splitlines(SubSeq(text, b + 1, Len(text)))

\* "\n".join(lines)
RECURSIVE join(_)
join(lines) ==
    IF lines = <<>> THEN <<>>
    ELSE IF Len(lines) = 1 THEN lines[1]
    ELSE lines[1] \o <<"\n">> \o join(Tail(lines))

\* str.lstrip on a text: blanks and line breaks
RECURSIVE lstrip_text(_)
lstrip_text(text) ==
    IF text # <<>> /\ Head(text) \in {" ", "\n"} THEN lstrip_text(Tail(text)) ELSE text

\* stripped.startswith("###")
IsHeader(stripped) == Len(stripped) >= 3 /\ SubSeq(stripped, 1, 3) = <<"#", "#", "#">>

\* The number of digits s begins with
RECURSIVE LeadingDigits(_)
LeadingDigits(s) ==
    IF s # <<>> /\ Head(s) \in Range(Digits) THEN 1 + LeadingDigits(Tail(s)) ELSE 0

\* prompts.py:236-255: the title without "###" and without a leading number
\* and dot (re.match of ^\d+\.\s*)
_normalize_section_title(title) ==
    LET t1 == strip(title)
        t2 == IF IsHeader(t1) THEN strip(SubSeq(t1, 4, Len(t1))) ELSE t1
        d == LeadingDigits(t2)
        t3 == IF d >= 1 /\ Len(t2) > d /\ t2[d + 1] = "."
              THEN lstrip(SubSeq(t2, d + 2, Len(t2))) ELSE t2
    IN  strip(t3)

\* The header lines among the first k lines
SectionNum(lines, k) == Cardinality({j \in 1..k : IsHeader(strip(lines[j]))})

\* Fault variant of _renumber_sections: the numbers the headers carry are
\* kept, a header without one gets its position
_renumber_sections_keepNumbers(template) ==
    LET lines == splitlines(template)
    IN  join([k \in 1..Len(lines) |->
                 IF IsHeader(strip(lines[k]))
                 THEN IF LeadingDigits(strip(SubSeq(strip(lines[k]), 4, Len(strip(lines[k]))))) > 0
                      THEN strip(lines[k])
                      ELSE <<"#", "#", "#", " ">> \o Str(SectionNum(lines, k)) \o <<".", " ">>
                           \o _normalize_section_title(strip(lines[k]))
                 ELSE lines[k]])

\* prompts.py:414-439
_renumber_sections(template) ==
    LET lines == splitlines(template)
    IN  join([k \in 1..Len(lines) |->
                 IF IsHeader(strip(lines[k]))
                 THEN <<"#", "#", "#", " ">> \o Str(SectionNum(lines, k)) \o <<".", " ">>
                      \o _normalize_section_title(strip(lines[k]))
                 ELSE lines[k]])

----------------------------------------------------------------------------

(* prompts.py: inject_memory_into_template on the text of the template *)

\* prompts.py:457
TARGET_SECTION == <<"User Terminology (Authoritative Glossary)">>

\* prompts.py:303-325: the loop over the lines from line k on, pos being
\* the offset of line k and start the offset found so far; None when the
\* section is not found, else the offsets of its content
RECURSIVE FindLoop(_, _, _, _, _, _)
FindLoop(template, lines, k, pos, start, target_title) ==
    IF k > Len(lines)
    THEN IF start # None THEN [section_start |-> start[1], section_end |-> Len(template)]
         ELSE None
    ELSE LET stripped == strip(lines[k])
             after == Min(pos + Len(lines[k]) + 1, Len(template))
         IN  IF IsHeader(stripped) /\ _normalize_section_title(stripped) = target_title
             THEN FindLoop(template, lines, k + 1, after, Some(after), target_title)
             ELSE IF IsHeader(stripped) /\ start # None
             THEN [section_start |-> start[1], section_end |-> pos]
             ELSE FindLoop(template, lines, k + 1, after, start, target_title)

\* prompts.py:287-325
_find_section_boundaries(template, target_title) ==
    FindLoop(template, splitlines(template), 1, 0, None, target_title)

\* The index of the first colon of s from k on that has text after it, 0
\* when there is none
RECURSIVE FirstColon(_, _)
FirstColon(s, k) ==
    IF k >= Len(s) THEN 0 ELSE IF s[k] = ":" THEN k ELSE FirstColon(s, k + 1)

\* prompts.py:273-282: one line against ^\s*-\s+(.+?):\s*(.+?)\s*$; <<>>
\* when it does not match or a term is blank, else the entry
ParseGlossaryLine(line) ==
    LET l == lstrip(line)
        r == IF Len(l) >= 2 /\ l[1] = "-" /\ l[2] = " " THEN lstrip(Tail(l)) ELSE <<>>
        c == FirstColon(r, 2)
    IN  IF c = 0 THEN <<>>
        ELSE LET eng == strip(SubSeq(r, 1, c - 1))
                 zh == strip(SubSeq(r, c + 1, Len(r)))
             IN  IF eng # <<>> /\ zh # <<>> THEN <<[eng |-> eng, zh |-> zh]>> ELSE <<>>

\* prompts.py:258-284
_parse_template_glossary(section_content) ==
    LET lines == splitlines(section_content)
    IN  Flatten([k \in 1..Len(lines) |-> ParseGlossaryLine(lines[k])])

\* prompts.py:396, 409: "- {eng}: {zh}" and "- {eng} ({type}): {zh}"
EntryLine(entry, with_type) ==
    <<"-", " ">> \o entry.eng
    \o (IF with_type /\ Get(entry, "type", "") # "" THEN <<" ", "(", entry.type, ")">> ELSE <<>>)
    \o <<":", " ">> \o entry.zh

\* prompts.py:376-411, as text
TerminologySectionText(user_glossary, learned_glossary) ==
    LET section == _build_terminology_section(user_glossary, learned_glossary)
        authoritative == [k \in 1..Len(section.authoritative) |->
                             EntryLine(section.authoritative[k], FALSE)]
        supplement == [k \in 1..Len(section.supplement) |->
                          EntryLine(section.supplement[k], TRUE)]
    IN  join(authoritative
             \o (IF learned_glossary # <<>>
                 THEN (IF authoritative # <<>> THEN <<<<>>>> ELSE <<>>)
                      \o <<<<"**Learned Terminology (Supplement):**">>>> \o supplement
                 ELSE <<>>))

NotFound(template) == [text |-> template, warning |-> "section not found"]

\* prompts.py:346, 352, 393, 404: entry["eng"] on a user entry that is no
\* object raises TypeError, entry.get on such a learned entry AttributeError
Raised(memory) ==
    IF \E k \in 1..Len(memory.user_glossary) : ~IsDict(memory.user_glossary[k])
    THEN [raised |-> "TypeError"]
    ELSE [raised |-> "AttributeError"]

\* Fault variant of TemplateWithMemory: without the section, the template
\* is still renumbered
TemplateWithMemory_renumbersAnyway(template, memory) ==
    LET found == _find_section_boundaries(template, TARGET_SECTION)
    IN  IF found = None
        THEN [text |-> _renumber_sections(template), warning |-> "section not found"]
        ELSE IF ~Renderable(memory) THEN Raised(memory)
        ELSE [text |-> _renumber_sections(template), warning |-> ""]

\* prompts.py:442-494: inject_memory_into_template on the text; the text
\* returned and the warning printed, or the exception raised (entry.get on
\* an entry that is no object)
TemplateWithMemory(template, memory) ==
    LET found == _find_section_boundaries(template, TARGET_SECTION)
    IN  IF found = None THEN NotFound(template)
        ELSE IF ~Renderable(memory) THEN Raised(memory)
        ELSE LET original_content ==
                     SubSeq(template, found.section_start + 1, found.section_end)
                 template_glossary == _parse_template_glossary(original_content)
                 merged_user_glossary ==
                     _merge_glossaries(template_glossary, memory.user_glossary)
                 new_content == TerminologySectionText(merged_user_glossary, memory.glossary)
                 new_template ==
                     SubSeq(template, 1, found.section_start) \o <<"\n">> \o new_content
                     \o <<"\n", "\n">>
                     \o lstrip_text(SubSeq(template, found.section_end + 1, Len(template)))
             IN  [text |-> _renumber_sections(new_template), warning |-> ""]

----------------------------------------------------------------------------

(* prompts.py: split_user_prompt_and_glossary.  The markers "<!--", "-->"   *)
(* and "->" are one token each                                              *)

\* The index of the first token tok of s from k on, 0 when there is none
\* (str.find)
RECURSIVE Find(_, _, _)
Find(s, tok, k) ==
    IF k > Len(s) THEN 0 ELSE IF s[k] = tok THEN k ELSE Find(s, tok, k + 1)

RECURSIVE rstrip_text(_)
rstrip_text(text) ==
    IF text # <<>> /\ text[Len(text)] \in {" ", "\n"}
    THEN rstrip_text(SubSeq(text, 1, Len(text) - 1)) ELSE text

\* str.strip on a text
strip_text(text) == rstrip_text(lstrip_text(text))

\* prompts.py:670-673
skip_prefixes ==
    { <<"Use the following name translations consistently:">>,
      <<"Use the following institutional correspondences:">> }

\* Fault variant of RemoveComments: a comment left open is closed at the
\* end of its line
RECURSIVE RemoveComments_closesAtLineEnd(_, _)
RemoveComments_closesAtLineEnd(working, in_comment) ==
    IF in_comment
    THEN LET end_idx == Find(working, "-->", 1)
         IN  IF end_idx = 0 THEN [working |-> <<>>, in_comment |-> FALSE]
             ELSE RemoveComments_closesAtLineEnd(
                      SubSeq(working, end_idx + 1, Len(working)), FALSE)
    ELSE LET start_idx == Find(working, "<!--", 1)
             end_idx == Find(working, "-->", start_idx + 1)
         IN  IF start_idx = 0 THEN [working |-> working, in_comment |-> FALSE]
             ELSE IF end_idx = 0
             THEN [working |-> SubSeq(working, 1, start_idx - 1), in_comment |-> FALSE]
             ELSE RemoveComments_closesAtLineEnd(
                      SubSeq(working, 1, start_idx - 1)
                      \o SubSeq(working, end_idx + 1, Len(working)), FALSE)

\* prompts.py:680-705: the line without its comments, and whether a comment
\* is open at its end
RECURSIVE RemoveComments(_, _)
RemoveComments(working, in_comment) ==
    IF in_comment
    THEN LET end_idx == Find(working, "-->", 1)
         IN  IF end_idx = 0 THEN [working |-> <<>>, in_comment |-> TRUE]
             ELSE RemoveComments(SubSeq(working, end_idx + 1, Len(working)), FALSE)
    ELSE LET start_idx == Find(working, "<!--", 1)
             end_idx == Find(working, "-->", start_idx + 1)
         IN  IF start_idx = 0 THEN [working |-> working, in_comment |-> FALSE]
             ELSE IF end_idx = 0
             THEN [working |-> SubSeq(working, 1, start_idx - 1), in_comment |-> TRUE]
             ELSE RemoveComments(SubSeq(working, 1, start_idx - 1)
                                 \o SubSeq(working, end_idx + 1, Len(working)), FALSE)

\* prompts.py:666, 717: the line against ^\s*[-*]\s+(.+?)\s*->\s*(.+?)\s*$;
\* None when it does not match, else the two groups
MatchBullet(line) ==
    LET l == lstrip(line)
        rest == IF l = <<>> THEN <<>> ELSE Tail(l)
        \* the first "->" with a blank and one more token before it and a
        \* token after it
        arrow == CHOOSE c \in 0..Len(rest) :
                    /\ c # 0 => c >= 3 /\ c < Len(rest) /\ rest[c] = "->"
                    /\ \A b \in 3..(IF c = 0 THEN Len(rest) - 1 ELSE c - 1) : rest[b] # "->"
    IN  IF Len(l) >= 2 /\ l[1] \in {"-", "*"} /\ l[2] = " " /\ arrow # 0
        THEN Some([eng |-> SubSeq(rest, 2, arrow - 1),
                   zh |-> SubSeq(rest, arrow + 1, Len(rest))])
        ELSE None

\* prompts.py:677-725: the loop from line k on
RECURSIVE SplitLoop(_, _, _)
SplitLoop(lines, k, st) ==
    IF k > Len(lines) THEN st
    ELSE LET removed == RemoveComments(lines[k], st.in_comment)
             line == removed.working
             stripped == strip(line)
             match == MatchBullet(line)
             next == [st EXCEPT !.in_comment = removed.in_comment]
         IN  IF stripped = <<>> THEN SplitLoop(lines, k + 1, next)
             ELSE IF stripped \in skip_prefixes THEN SplitLoop(lines, k + 1, next)
             ELSE IF match # None
             THEN LET eng == strip(match[1].eng)
                      zh == strip(match[1].zh)
                  IN  IF eng # <<>> /\ zh # <<>>
                      THEN SplitLoop(lines, k + 1,
                               [next EXCEPT !.glossary = Append(@, [eng |-> eng, zh |-> zh])])
                      ELSE SplitLoop(lines, k + 1, next)
             ELSE SplitLoop(lines, k + 1, [next EXCEPT !.instructions = Append(@, line)])

\* prompts.py:659-731
split_user_prompt_and_glossary(text) ==
    LET st == SplitLoop(splitlines(text), 1,
                        [in_comment |-> FALSE, instructions |-> <<>>, glossary |-> <<>>])
    IN  [instructions |-> strip_text(join(st.instructions)), glossary |-> st.glossary]

----------------------------------------------------------------------------

(* Inputs *)

\* The pair store built by ass_parser.build_pairs_from_ass_lines: ids count
\* from 0 (ass_parser.py:193-200)
MkPairs(toks) ==
    [k \in 1..Len(toks) |-> [id |-> k - 1, tokens |-> toks[k], text |-> "original"]]

TokenSizes == {100, 400, 900}

ChunkInputs ==
    SeqUpTo(TokenSizes, MaxLen) \cup {[k \in 1..n |-> 100] : n \in 0..MaxConstLen}

\* prompts.py:659-731: glossaries split_user_prompt_and_glossary returns
\* (entries with non-empty, stripped eng and zh)
UserEntry(eng, zh) == [eng |-> eng, zh |-> zh]

Seeds ==
    { <<>>,
      <<UserEntry(<<"C">>, <<"x">>), UserEntry(<<"b">>, <<"y">>)>> }

\* prompts.py:258-284: the glossary _parse_template_glossary reads from the
\* terminology section of the template file
MainTemplateGlossary == <<UserEntry(<<"A">>, <<"y">>)>>

\* config.py:43-63: the settings the model reads, and what the files at
\* user_prompt_path hold: the terminology section of the main template
\* (template_glossary) and the glossary of the custom prompt, empty when
\* there is none (custom_prompt_glossary)
MkConfig(ppc, soft, maxent, memlimit) ==
    [api_key |-> "sk", pairs_per_chunk |-> ppc, chunk_token_soft_limit |-> soft,
     max_chunks |-> None, glossary_max_entries |-> maxent,
     glossary_policy |-> "lock", memory_token_limit |-> memlimit,
     template_glossary |-> MainTemplateGlossary,
     custom_prompt_glossary |-> <<>>]

ChunkConfigs ==
    {MkConfig(ppc, soft, 100, 4000) :
        ppc \in {None, Some(0), Some(1), Some(2), Some(3)}, soft \in {1000, 1900, 2000}}

\* One pair per batch.  The glossary limit is off (0) or 3; the memory budget
\* is the default, never exceeded, or 28 tokens, which a user glossary with
\* two learned entries exceeds
RunConfigs ==
    { MkConfig(Some(1), 60000, 0, 4000),
      MkConfig(Some(1), 60000, 3, 4000),
      [MkConfig(Some(1), 60000, 3, 28) EXCEPT
          !.custom_prompt_glossary =
              <<UserEntry(<<"C">>, <<"x">>), UserEntry(<<"b">>, <<"y">>)>>] }

\* Configurations as constructed, before __post_init__: the api_key given or
\* not, the run cut to its first batch (--max-chunks 1)
StartConfigs ==
    { [MkConfig(Some(1), 60000, 3, 28) EXCEPT
          !.api_key = api_key, !.max_chunks = Some(1),
          !.custom_prompt_glossary = user_glossary] :
        api_key \in {"", "sk"}, user_glossary \in Seeds }

\* The environment: OPENAI_API_KEY not set, set to the empty string, set
Environments == {None, Some(""), Some("sk")}

\* Items a response of the terminology oracle may hold
RawItem(eng, zh, type, confidence) ==
    [eng |-> eng, zh |-> zh, type |-> type, confidence |-> confidence]

RawItems ==
    { RawItem(<<"C">>, <<"x">>, "person", 9),
      RawItem(<<"C">>, <<"y">>, "person", 9),
      RawItem(<<"c">>, <<"x">>, "person", 6),
      RawItem(<<" ", "C">>, <<"x", " ">>, "Person", 9),
      RawItem(<<"B">>, <<"x">>, "place", 9),
      RawItem(<<"A">>, <<"y">>, "person", 6),
      RawItem(<<"D">>, <<"x">>, "person", 9),
      RawItem(<<"B">>, <<"x">>, "person", 5),
      RawItem(<<"B">>, <<"x">>, "bogus", 9),
      RawItem(<<" ">>, <<"x">>, "person", 9),
      RawItem(<<"B">>, <<>>, "person", 9) }

\* Responses of the terminology oracle: a JSON array, or a failed call
Failed == [ok |-> FALSE]
Returned(body) == [ok |-> TRUE, body |-> body]

RawResponses == {Returned(items) : items \in SeqUpTo(RawItems, MaxTerms)} \cup {Failed}

\* memory.py:168-242: [] when the call or the JSON parse fails, else the
\* parsed entries
extract_terminology_from_chunk(resp) ==
    IF ~resp.ok THEN <<>>
    ELSE _parse_terminology_entries(resp.body, terminology_min_confidence)

\* What extract_terminology_from_chunk returns over all responses
ExtractOutputs == {extract_terminology_from_chunk(r) : r \in RawResponses}

Learned(eng, zh, type, confidence) ==
    [eng |-> eng, zh |-> zh, type |-> type, confidence |-> confidence]

\* Responses of the compression oracle: the text of a JSON object, or a
\* failed call.  In order: no glossary key; an entry without zh; an empty
\* glossary and nothing but a summary; every field, the glossaries empty; a
\* learned glossary of one entry; the user glossary handed back; a user
\* glossary of strings
CompressResponses ==
    { Failed,
      Returned([style_notes |-> <<"s">>]),
      Returned([glossary |-> <<[eng |-> <<"B">>]>>]),
      Returned([glossary |-> <<>>, summary |-> <<"s">>]),
      Returned([user_glossary |-> <<>>, glossary |-> <<>>,
                style_notes |-> <<"s">>, summary |-> <<"s">>]),
      Returned([user_glossary |-> <<>>,
                glossary |-> <<Learned(<<"B">>, <<"x">>, "place", 9)>>,
                style_notes |-> <<"s">>, summary |-> <<>>]),
      Returned([user_glossary |-> <<UserEntry(<<"C">>, <<"x">>),
                                    UserEntry(<<"b">>, <<"y">>)>>,
                glossary |-> <<>>, style_notes |-> <<>>, summary |-> <<"s">>]),
      Returned([user_glossary |-> <<JsonString(<<"C">>)>>, glossary |-> <<>>,
                style_notes |-> <<>>, summary |-> <<>>]) }

----------------------------------------------------------------------------
(* main and process_subtitles: main.py:81-355, experiment/main_sdk.py:133-360 *)

NoReport ==
    [added |-> 0, skipped_conflict |-> 0, skipped_user_dup |-> 0, skipped_existing |-> 0]

\* main.py:150-152
NumChunks ==
    IF config.max_chunks # None /\ config.max_chunks[1] < Len(chunks)
    THEN config.max_chunks[1] ELSE Len(chunks)

\* main.py:150-152: chunks = chunks[:config.max_chunks], the batches the loop
\* goes through
ProcessedChunks == SubSeq(chunks, 1, NumChunks)

\* main.py:161: the position after batch i
AfterBatch == IF i + 1 < NumChunks THEN "refine" ELSE "output"

InitCommon ==
    /\ chunks = <<>>
    /\ i = 0
    /\ global_memory = init_global_memory
    /\ new_terms = <<>>
    /\ report = NoReport
    /\ total_usage = 0
    /\ system_prompt = None
    /\ compress_response = None
    /\ warning = ""
    /\ attempted = <<>>
    /\ learned = {}

\* A run with its configuration loaded: RunPairs pairs, one per batch
\* (main.py:112-134)
Init ==
    /\ pc = "seed"
    /\ pairs = MkPairs([k \in 1..RunPairs |-> 100])
    /\ config \in RunConfigs
    /\ OPENAI_API_KEY = None
    /\ base_prompt_tokens = 200
    /\ InitCommon
    /\ call = None
    /\ result = None

\* A run from the start of main: the configuration is not loaded yet
InitStart ==
    /\ pc = "start"
    /\ pairs = MkPairs([k \in 1..RunPairs |-> 100])
    /\ config \in StartConfigs
    /\ OPENAI_API_KEY \in Environments
    /\ base_prompt_tokens = 200
    /\ InitCommon
    /\ call = None
    /\ result = None

\* chunk_pairs on its own, over the inputs of the chunker
InitChunk ==
    /\ pc = "chunk"
    /\ pairs \in {MkPairs(toks) : toks \in ChunkInputs}
    /\ config \in ChunkConfigs
    /\ OPENAI_API_KEY = None
    /\ base_prompt_tokens \in {200, 1000}
    /\ InitCommon
    /\ call = None
    /\ result = None

\* config.py:65-75: the api_key after __post_init__; "" stands for the
\* ValueError
__post_init__(api_key, env) ==
    IF api_key = ""
    THEN (IF env # None THEN env[1] ELSE "YOURKEY")
    ELSE api_key

\* main.py:324-341: load_config; on ValueError main returns 1
LoadConfig ==
    /\ pc = "start"
    /\ \E api_key \in {__post_init__(config.api_key, OPENAI_API_KEY)} :
          IF api_key = ""
          THEN pc' = "config_error" /\ config' = config
          ELSE pc' = "seed" /\ config' = [config EXCEPT !.api_key = api_key]
    /\ UNCHANGED <<call, result, pairs, OPENAI_API_KEY, base_prompt_tokens, chunks, i, global_memory,
                   new_terms, report, total_usage, system_prompt, compress_response,
                   warning, attempted, learned>>

\* experiment/main_sdk.py:185-207: the user glossary of the custom prompt
\* (main.py:134 seeds nothing)
SeedGlossary ==
    /\ pc = "seed"
    /\ global_memory' = IF config.custom_prompt_glossary # <<>>
                        THEN [global_memory EXCEPT
                                 !.user_glossary = config.custom_prompt_glossary]
                        ELSE global_memory
    /\ pc' = "chunk"
    /\ UNCHANGED <<call, result, pairs, config, OPENAI_API_KEY, base_prompt_tokens, chunks, i,
                   new_terms, report, total_usage, system_prompt, compress_response,
                   warning, attempted, learned>>

\* main.py:146
ChunkPairs ==
    /\ pc = "chunk"
    /\ chunks' = chunk_pairs(pairs, config, base_prompt_tokens)
    /\ pc' = IF chunks' = <<>> THEN "output" ELSE "refine"
    /\ UNCHANGED <<call, result, pairs, config, OPENAI_API_KEY, base_prompt_tokens, i, global_memory,
                   new_terms, report, total_usage, system_prompt, compress_response,
                   warning, attempted, learned>>

\* What the refinement oracle returns for a batch, when refine_chunk accepts
\* it (llm_client.py:216-230: a JSON array of objects with id, eng and
\* chinese; the ids are not compared with the batch): the pairs of the batch
\* with corrected text, or as many corrected pairs under the ids that follow
RefineResponses(chunk) ==
    { [k \in 1..Len(chunk) |-> [id |-> chunk[k].id, text |-> "corrected"]],
      [k \in 1..Len(chunk) |-> [id |-> chunk[k].id + 1, text |-> "corrected"]] }

\* main.py:42-62: the text of a pair whose id the corrections hold is
\* replaced (the last correction with the id)
apply_corrections_to_global_pairs(ps, corrected_pairs) ==
    [k \in 1..Len(ps) |->
        IF \E c \in 1..Len(corrected_pairs) : corrected_pairs[c].id = ps[k].id
        THEN [ps[k] EXCEPT !.text =
                 corrected_pairs[CHOOSE c \in 1..Len(corrected_pairs) :
                     /\ corrected_pairs[c].id = ps[k].id
                     /\ \A d \in (c + 1)..Len(corrected_pairs) :
                           corrected_pairs[d].id # ps[k].id].text]
        ELSE ps[k]]

\* Fault variant of RefineFail: the usage of the failed call is accumulated
RefineFail_countsUsage ==
    /\ pc = "refine"
    /\ system_prompt' = Some(build_system_prompt(global_memory, config))
    /\ attempted' = Append(attempted, i)
    /\ i' = i + 1
    /\ pc' = AfterBatch
    /\ warning' = "chunk skipped"
    /\ new_terms' = <<>>
    /\ report' = NoReport
    /\ compress_response' = None
    /\ total_usage' = total_usage + 1
    /\ UNCHANGED <<call, result, pairs, config, OPENAI_API_KEY, base_prompt_tokens, chunks,
                   global_memory, learned>>

\* main.py:169, 212-215: refine_chunk builds the prompt, then raises
\* LLMAPIError; the batch is skipped
RefineFail ==
    /\ pc = "refine"
    /\ system_prompt' = Some(build_system_prompt(global_memory, config))
    /\ attempted' = Append(attempted, i)
    /\ i' = i + 1
    /\ pc' = AfterBatch
    /\ warning' = "chunk skipped"
    /\ new_terms' = <<>>
    /\ report' = NoReport
    /\ compress_response' = None
    /\ UNCHANGED <<call, result, pairs, config, OPENAI_API_KEY, base_prompt_tokens, chunks,
                   global_memory, total_usage, learned>>

\* main.py:169-189: refine_chunk returns, its usage is accumulated and the
\* corrections are applied to the pairs (the batches hold the same objects)
RefineOk ==
    /\ pc = "refine"
    /\ system_prompt' = Some(build_system_prompt(global_memory, config))
    /\ attempted' = Append(attempted, i)
    /\ \E corrected_pairs \in RefineResponses(chunks[i + 1]) :
          /\ pairs' = apply_corrections_to_global_pairs(pairs, corrected_pairs)
          /\ chunks' = [b \in 1..Len(chunks) |->
                           apply_corrections_to_global_pairs(chunks[b], corrected_pairs)]
    /\ total_usage' = total_usage + 1
    /\ pc' = "merge"
    /\ warning' = ""
    /\ new_terms' = <<>>
    /\ report' = NoReport
    /\ compress_response' = None
    /\ UNCHANGED <<call, result, config, OPENAI_API_KEY, base_prompt_tokens, i, global_memory, learned>>

\* memory.py:324: what update_global_memory returns, st being the state its
\* loop and the eviction left: the memory alone
update_global_memory(memory, st) == [memory EXCEPT !.glossary = st.glossary]

\* main.py:192-196: update_global_memory, then the test for compression
UpdateGlobalMemory ==
    /\ pc = "merge"
    /\ \E terms \in ExtractOutputs :
          \E st \in {MergeTerms(global_memory, terms, config)} :
              /\ new_terms' = terms
              /\ global_memory' = update_global_memory(global_memory, st)
              /\ report' = [added |-> st.added,
                            skipped_conflict |-> st.skipped_conflict,
                            skipped_user_dup |-> st.skipped_user_dup,
                            skipped_existing |-> st.skipped_existing]
              /\ learned' = learned \cup
                     (st.existing_terms \ {e.eng : e \in Range(global_memory.glossary)})
    /\ IF estimate_memory_tokens(global_memory') > config.memory_token_limit
       THEN pc' = "compress" /\ i' = i
       ELSE pc' = AfterBatch /\ i' = i + 1
    /\ system_prompt' = None
    /\ warning' = ""
    /\ UNCHANGED <<call, result, pairs, config, OPENAI_API_KEY, base_prompt_tokens, chunks,
                   total_usage, compress_response, attempted>>

\* llm_client.py:238-297: the new memory, or Failed for LLMAPIError.  The
\* text parsed is the array extract_json_from_response found, else the whole
\* response
compress_memory(resp) ==
    IF ~resp.ok THEN Failed
    ELSE LET json_str == extract_json_from_response(resp.body)
             compressed_data == IF json_str = None THEN JsonDict(resp.body)
                                ELSE JsonList(json_str[1])
         IN  IF ~validate_memory_structure(compressed_data) THEN Failed
             ELSE Returned(from_dict(compressed_data.value))

\* main.py:196-210: compress_memory; on LLMAPIError the memory is kept and a
\* warning printed.  The size of the new memory is estimated for the log
\* (main.py:206): when build_memory_section raises there, the exception is
\* no LLMAPIError and process_subtitles returns False (main.py:239-243)
CompressMemory ==
    /\ pc = "compress"
    /\ \E resp \in CompressResponses :
          \E compressed_memory \in {compress_memory(resp)} :
              /\ compress_response' = Some(resp)
              /\ IF compressed_memory.ok
                 THEN /\ global_memory' = compressed_memory.body
                      /\ total_usage' = total_usage + 1
                      /\ warning' = ""
                      /\ IF Renderable(compressed_memory.body)
                         THEN pc' = AfterBatch /\ i' = i + 1
                         ELSE pc' = "aborted" /\ i' = i
                 ELSE /\ global_memory' = global_memory
                      /\ total_usage' = total_usage
                      /\ warning' = "compression failed"
                      /\ pc' = AfterBatch /\ i' = i + 1
    /\ new_terms' = <<>>
    /\ report' = NoReport
    /\ UNCHANGED <<call, result, pairs, config, OPENAI_API_KEY, base_prompt_tokens, chunks,
                   system_prompt, attempted, learned>>

\* main.py:219-237
WriteOutput ==
    /\ pc = "output"
    /\ pc' = "done"
    /\ system_prompt' = None
    /\ compress_response' = None
    /\ warning' = ""
    /\ UNCHANGED <<call, result, pairs, config, OPENAI_API_KEY, base_prompt_tokens, chunks, i,
                   global_memory, new_terms, report, total_usage, attempted, learned>>

Next ==
    \/ SeedGlossary
    \/ ChunkPairs
    \/ RefineFail
    \/ RefineOk
    \/ UpdateGlobalMemory
    \/ CompressMemory
    \/ WriteOutput

Spec == Init /\ [][Next]_vars

NextStart == LoadConfig \/ Next

SpecStart == InitStart /\ [][NextStart]_vars

NextChunk == ChunkPairs

SpecChunk == InitChunk /\ [][NextChunk]_vars

----------------------------------------------------------------------------
(* Functions called on their own, over bounded inputs *)

\* The raw entries of demo_filtering (test_terminology_confidence.py:33-36):
\* confidence 0.8 and 0.5
DemoRaw == <<RawItem(<<"B">>, <<"x">>, "person", 8), RawItem(<<"C">>, <<"y">>, "person", 5)>>

\* Calls of _parse_terminology_entries: a raw array and a threshold (0.4, 0.6)
ParseCalls ==
    { [fn |-> "_parse_terminology_entries", raw_data |-> raw_data,
       min_confidence |-> min_confidence] :
        raw_data \in SeqUpTo(RawItems, MaxTerms) \cup {DemoRaw},
        min_confidence \in {4, terminology_min_confidence} }

\* Calls of update_global_memory with the list new_terms given: entries as
\* the oracle wrote them, the filter of extract_terminology_from_chunk left
\* out
MergeCalls ==
    { [fn |-> "update_global_memory", memory |-> memory, new_terms |-> terms] :
        memory \in {[init_global_memory EXCEPT !.user_glossary = seed] : seed \in Seeds},
        terms \in SeqUpTo(RawItems, MaxTerms) }

\* A text of n characters, its first and last character told apart
Text(n) == [k \in 1..n |-> IF k = 1 THEN "a" ELSE IF k = n THEN "z" ELSE "s"]

\* Calls of compress_memory_simple: a memory of up to three learned entries,
\* notes up to one character over the cap, and max_entries
SimpleCalls ==
    { [fn |-> "compress_memory_simple",
       memory |-> [user_glossary |-> <<>>,
                   glossary |-> SubSeq(<<Learned(<<"A">>, <<"y">>, "person", 9),
                                         Learned(<<"B">>, <<"x">>, "place", 9),
                                         Learned(<<"D">>, <<"x">>, "person", 9)>>, 1, n),
                   style_notes |-> Text(notes), summary |-> Text(summary)],
       max_entries |-> max_entries] :
        n \in 0..3, notes \in {0, 1, NotesCap, NotesCap + 1},
        summary \in {0, NotesCap + 1}, max_entries \in 0..3 }

\* Lines of a template: headers numbered 3, 7 and 1, without a number,
\* indented, of a deeper level, with a numbered title; a text line; a blank
\* line
TemplateLines ==
    { <<"#", "#", "#", " ", "3", ".", " ", "T">>,
      <<"#", "#", "#", " ", "7", ".", " ", "U">>,
      <<"#", "#", "#", " ", "1", ".", " ", "V">>,
      <<"#", "#", "#", " ", "W">>,
      <<" ", "#", "#", "#", "2", ".", "T", " ">>,
      <<"#", "#", "#", "#", " ", "5", ".", " ", "X">>,
      <<"#", "#", "#", " ", "3", ".", " ", "7", ".", " ", "T">>,
      <<"t">>,
      <<>> }

\* Texts of up to MaxLines lines, ending with no, one or two line breaks
Templates ==
    { join(lines) \o tail : lines \in SeqUpTo(TemplateLines, MaxLines),
                            tail \in {<<>>, <<"\n">>, <<"\n", "\n">>} }

RenumberCalls == { [fn |-> "_renumber_sections", template |-> t] : t \in Templates }

\* Lines of a template with a terminology section: other headers, the
\* header of the section with and without a number, an entry, a text line
SectionLines ==
    { <<"#", "#", "#", " ", "3", ".", " ", "T">>,
      <<"#", "#", "#", " ", "7", ".", " ">> \o TARGET_SECTION,
      <<"#", "#", "#", " ">> \o TARGET_SECTION,
      <<"-", " ", "A", ":", " ", "y">>,
      <<"t">> }

\* Memories: empty; both glossaries and notes; a user entry that is no
\* object; a user entry and a learned entry on the term of the template
Memories ==
    { init_global_memory,
      [user_glossary |-> <<UserEntry(<<"C">>, <<"x">>), UserEntry(<<"b">>, <<"y">>)>>,
       glossary |-> <<Learned(<<"D">>, <<"x">>, "person", 9)>>,
       style_notes |-> <<"s">>, summary |-> <<>>],
      [init_global_memory EXCEPT !.user_glossary = <<JsonString(<<"C">>)>>],
      [init_global_memory EXCEPT !.user_glossary = <<UserEntry(<<"a">>, <<"x">>)>>,
                                 !.glossary = <<Learned(<<"A">>, <<"y">>, "person", 6)>>] }

InjectCalls ==
    { [fn |-> "inject_memory_into_template", template |-> join(lines) \o tail,
       memory |-> memory] :
        lines \in SeqUpTo(SectionLines, MaxLines), tail \in {<<>>, <<"\n">>},
        memory \in Memories }

\* Lines of a custom prompt: text, a blank line, a comment on one line, the
\* start and the end of a comment, text around an inline comment, bullet
\* lines (one with a comment in it, one without a term, one without a
\* translation), a glossary header
PromptLines ==
    { <<"t">>,
      <<>>,
      <<"<!--", " ", "c", " ", "-->">>,
      <<"u", " ", "<!--", " ", "c">>,
      <<"c", " ", "-->", " ", "v">>,
      <<"t", " ", "<!--", "c", "-->", " ", "u">>,
      <<"*", " ", "A", " ", "->", " ", "x">>,
      <<" ", "-", " ", "b", "->", "y", " ">>,
      <<"*", " ", "D", "<!--", "c", "-->", " ", "->", " ", "x">>,
      <<"*", " ", " ", "->", " ", "x">>,
      <<"*", " ", "A", " ", "->", " ">>,
      <<"Use the following name translations consistently:">> }

\* SAMPLE_PROMPT of test_split_user_prompt_and_glossary.py:15-31
SamplePrompt ==
    join(<< <<"t">>, <<>>, <<"<!--">>, <<"c">>, <<"c">>, <<"-->">>, <<>>,
            <<"Use the following name translations consistently:">>,
            <<"*", " ", "A", " ", "->", " ", "x">>,
            <<"*", " ", "B", " ", "->", " ", "y">>,
            <<"u", " ", "<!--", " ", "c", " ", "-->">>,
            <<"*", " ", "C", " ", "->", " ", "x">>, <<>>,
            <<"Use the following institutional correspondences:">>,
            <<"*", " ", "D", " ", "->", " ", "y">> >>) \o <<"\n">>

SplitCalls ==
    { [fn |-> "split_user_prompt_and_glossary", text |-> text] :
        text \in {join(lines) : lines \in SeqUpTo(PromptLines, MaxLines)}
                  \cup {SamplePrompt} }

UnitCalls ==
    ParseCalls \cup MergeCalls \cup SimpleCalls \cup RenumberCalls \cup InjectCalls
    \cup SplitCalls

\* No run: the pair store, the batches and the memory are empty
InitUnit ==
    /\ pc = "call"
    /\ pairs = <<>>
    /\ config = MkConfig(None, 60000, 100, 4000)
    /\ OPENAI_API_KEY = None
    /\ base_prompt_tokens = 0
    /\ InitCommon
    /\ call \in UnitCalls
    /\ result = None

\* memory.py:127-165
ParseTerminologyEntries ==
    /\ pc = "call"
    /\ call.fn = "_parse_terminology_entries"
    /\ result' = Some(_parse_terminology_entries(call.raw_data, call.min_confidence))
    /\ pc' = "returned"
    /\ UNCHANGED <<call, pairs, config, OPENAI_API_KEY, base_prompt_tokens, chunks, i,
                   global_memory, new_terms, report, total_usage, system_prompt,
                   compress_response, warning, attempted, learned>>

\* memory.py:268-324: update_global_memory from its lookup tables on
MergeNewTerms ==
    /\ pc = "call"
    /\ call.fn = "update_global_memory"
    /\ result' = Some(update_global_memory(call.memory,
                                           MergeTerms(call.memory, call.new_terms, config)))
    /\ pc' = "returned"
    /\ UNCHANGED <<call, pairs, config, OPENAI_API_KEY, base_prompt_tokens, chunks, i,
                   global_memory, new_terms, report, total_usage, system_prompt,
                   compress_response, warning, attempted, learned>>

\* memory.py:345-362
CompressMemorySimple ==
    /\ pc = "call"
    /\ call.fn = "compress_memory_simple"
    /\ result' = Some(compress_memory_simple(call.memory, call.max_entries))
    /\ pc' = "returned"
    /\ UNCHANGED <<call, pairs, config, OPENAI_API_KEY, base_prompt_tokens, chunks, i,
                   global_memory, new_terms, report, total_usage, system_prompt,
                   compress_response, warning, attempted, learned>>

\* prompts.py:414-439
RenumberSections ==
    /\ pc = "call"
    /\ call.fn = "_renumber_sections"
    /\ result' = Some(_renumber_sections(call.template))
    /\ pc' = "returned"
    /\ UNCHANGED <<call, pairs, config, OPENAI_API_KEY, base_prompt_tokens, chunks, i,
                   global_memory, new_terms, report, total_usage, system_prompt,
                   compress_response, warning, attempted, learned>>

\* prompts.py:442-494
InjectMemoryIntoTemplate ==
    /\ pc = "call"
    /\ call.fn = "inject_memory_into_template"
    /\ result' = Some(TemplateWithMemory(call.template, call.memory))
    /\ pc' = "returned"
    /\ UNCHANGED <<call, pairs, config, OPENAI_API_KEY, base_prompt_tokens, chunks, i,
                   global_memory, new_terms, report, total_usage, system_prompt,
                   compress_response, warning, attempted, learned>>

\* prompts.py:659-731
SplitUserPromptAndGlossary ==
    /\ pc = "call"
    /\ call.fn = "split_user_prompt_and_glossary"
    /\ result' = Some(split_user_prompt_and_glossary(call.text))
    /\ pc' = "returned"
    /\ UNCHANGED <<call, pairs, config, OPENAI_API_KEY, base_prompt_tokens, chunks, i,
                   global_memory, new_terms, report, total_usage, system_prompt,
                   compress_response, warning, attempted, learned>>

NextUnit ==
    \/ ParseTerminologyEntries
    \/ MergeNewTerms
    \/ CompressMemorySimple
    \/ RenumberSections
    \/ InjectMemoryIntoTemplate
    \/ SplitUserPromptAndGlossary

SpecUnit == InitUnit /\ [][NextUnit]_vars

----------------------------------------------------------------------------

(* llm_client.py: call_openai_api, one request per step *)

\* What requests.post and the reading of the response come to: a response
\* with choices, requests.exceptions.Timeout, HTTPError with a status (or
\* with no response at all), any other exception (connection error, a body
\* that is no JSON, no choices)
Replies ==
    { [kind |-> "ok"], [kind |-> "timeout"], [kind |-> "other"],
      [kind |-> "http", status_code |-> None] }
    \cup { [kind |-> "http", status_code |-> Some(n)] : n \in {400, 429, 500, 503} }

LLMAPIError == [raised |-> "LLMAPIError"]

\* Fault variant of ServerError: every HTTP error with a status is retried
ServerError_anyStatus(reply) ==
    reply.kind = "http" /\ reply.status_code # None

\* llm_client.py:132-133: status_code is not None and status_code >= 500
ServerError(reply) ==
    reply.kind = "http" /\ reply.status_code # None /\ reply.status_code[1] >= 500

\* Calls: max_retries, and whether a model name is configured
ApiCalls ==
    { [fn |-> "call_openai_api", max_retries |-> max_retries,
       target_model |-> target_model, attempt |-> 0, sent |-> <<>>] :
        max_retries \in 0..MaxRetries, target_model \in {"", "gpt-5-mini"} }

InitApi ==
    /\ pc = "call"
    /\ pairs = <<>>
    /\ config = MkConfig(None, 60000, 100, 4000)
    /\ OPENAI_API_KEY = None
    /\ base_prompt_tokens = 0
    /\ InitCommon
    /\ call \in ApiCalls
    /\ result = None

\* llm_client.py:68-81: the settings of the call; without a model name
\* LLMAPIError is raised
CheckSettings ==
    /\ pc = "call"
    /\ call.fn = "call_openai_api"
    /\ IF call.target_model = ""
       THEN result' = Some(LLMAPIError) /\ pc' = "returned"
       ELSE result' = result /\ pc' = "loop"
    /\ UNCHANGED <<call, pairs, config, OPENAI_API_KEY, base_prompt_tokens, chunks, i,
                   global_memory, new_terms, report, total_usage, system_prompt,
                   compress_response, warning, attempted, learned>>

\* llm_client.py:83-141: one turn of the loop: the request is sent; the
\* response is returned, or the request is tried again after a timeout or
\* a server error while attempt < max_retries - 1, or LLMAPIError is raised
SendRequest ==
    /\ pc = "loop"
    /\ call.attempt < call.max_retries
    /\ \E reply \in Replies :
          LET retry == /\ call.attempt < call.max_retries - 1
                       /\ (reply.kind = "timeout" \/ ServerError(reply))
          IN  /\ call' = [call EXCEPT !.sent = Append(@, reply),
                                      !.attempt = IF retry THEN @ + 1 ELSE @]
              /\ IF reply.kind = "ok"
                 THEN result' = Some([response_text |-> "text", usage |-> 1])
                      /\ pc' = "returned"
                 ELSE IF retry THEN result' = result /\ pc' = "loop"
                 ELSE result' = Some(LLMAPIError) /\ pc' = "returned"
    /\ UNCHANGED <<pairs, config, OPENAI_API_KEY, base_prompt_tokens, chunks, i,
                   global_memory, new_terms, report, total_usage, system_prompt,
                   compress_response, warning, attempted, learned>>

\* llm_client.py:84, 146: the loop is not entered or is left
Exhausted ==
    /\ pc = "loop"
    /\ ~(call.attempt < call.max_retries)
    /\ result' = Some(LLMAPIError)
    /\ pc' = "returned"
    /\ UNCHANGED <<call, pairs, config, OPENAI_API_KEY, base_prompt_tokens, chunks, i,
                   global_memory, new_terms, report, total_usage, system_prompt,
                   compress_response, warning, attempted, learned>>

NextApi ==
    \/ CheckSettings
    \/ SendRequest
    \/ Exhausted

\* Each step of the function is taken when it can be: the request returns
\* or times out (api_timeout), the sleep before a retry ends
SpecApi == InitApi /\ [][NextApi]_vars /\ WF_vars(NextApi)

----------------------------------------------------------------------------

(* Properties of the Batcher (chunk_pairs), checked under SpecChunk *)

\* chunk_pairs has returned
Chunked == pc \notin {"start", "config_error", "seed", "chunk"}

\* The positions <<batch, index>> of the batch list
Positions == UNION {{<<b, j>> : j \in 1..Len(chunks[b])} : b \in 1..Len(chunks)}

BatchSizes == [b \in 1..Len(chunks) |-> Len(chunks[b])]

AllTokens(n) == \A k \in 1..Len(pairs) : pairs[k].tokens = n

\* C1: the batches partition the input: every input pair id occurs at exactly
\* one position of the batch list, the batch list holds nothing else, no batch
\* is empty, and the empty input gives the empty batch list.
C1_BatchesPartitionInput ==
    Chunked =>
        /\ \A k \in 1..Len(pairs) :
              Cardinality({p \in Positions : chunks[p[1]][p[2]].id = pairs[k].id}) = 1
        /\ Cardinality(Positions) = Len(pairs)
        /\ \A b \in 1..Len(chunks) : chunks[b] # <<>>
        /\ (pairs = <<>> => chunks = <<>>)

\* C1 witness: a token-policy split of four pairs into at least three batches
C1_Witness ==
    Chunked /\ ~UseCount(config) /\ Len(pairs) = 4 /\ Len(chunks) >= 3

\* C2: the batches, concatenated in batch order, are the input sequence:
\* contiguous slices in input order.
C2_ConcatenationIsInput == Chunked => Flatten(chunks) = pairs

\* C2 witness: a fixed-count split with a batch of several pairs and a
\* token-policy split of several batches both exist; this is the first
C2_Witness ==
    Chunked /\ UseCount(config) /\ Len(chunks) >= 2 /\ Len(chunks[1]) >= 2

\* C3: under the fixed-count policy with n >= 1 and L >= 1 pairs there are
\* ceil(L/n) batches, all of n pairs but the last, which holds 1..n pairs.
C3_FixedCountSizes ==
    (Chunked /\ UseCount(config) /\ Len(pairs) >= 1) =>
        LET n == config.pairs_per_chunk[1]
            m == Len(chunks)
        IN  /\ m * n >= Len(pairs)
            /\ (m - 1) * n < Len(pairs)
            /\ \A b \in 1..(m - 1) : Len(chunks[b]) = n
            /\ Len(chunks[m]) \in 1..n
            /\ Len(chunks[m]) = Len(pairs) - (m - 1) * n

\* C3 witness: five pairs, n = 2, sizes [2, 2, 1] (the shape of 125 pairs
\* with n = 50)
C3_Witness ==
    /\ Chunked
    /\ config.pairs_per_chunk = Some(2)
    /\ Len(pairs) = 5
    /\ BatchSizes = <<2, 2, 1>>

C5_OversizedPairAlone ==
    (Chunked /\ ~UseCount(config)) =>
        LET budget == config.chunk_token_soft_limit - base_prompt_tokens - 1000
        IN  /\ \A k \in 1..Len(pairs) :
                  pairs[k].tokens > budget =>
                      \E b \in 1..Len(chunks) : chunks[b] = <<pairs[k]>>
            /\ \A b \in 1..Len(chunks) : \A j \in 1..Len(chunks[b]) :
                  chunks[b][j].tokens > budget => Len(chunks[b]) = 1
            /\ Cardinality(Positions) = Len(pairs)

\* C5 witness: an oversized pair between two pairs that fit a positive budget
C5_Witness ==
    /\ Chunked /\ ~UseCount(config)
    /\ config.chunk_token_soft_limit = 1900 /\ base_prompt_tokens = 200
    /\ Len(pairs) = 4
    /\ pairs[1].tokens = 100 /\ pairs[2].tokens = 900
    /\ pairs[3].tokens = 100 /\ pairs[4].tokens = 100
    /\ BatchSizes = <<1, 1, 2>>

----------------------------------------------------------------------------
(* Properties of the merge and of the memory, checked under Spec *)

\* The exact source terms of a glossary
Engs(glossary) == {glossary[k].eng : k \in 1..Len(glossary)}

\* Two source terms are equal when case is ignored
SameIgnoringCase(a, b) == casefold(strip(a)) = casefold(strip(b))

\* The authoritative entries with the source term of proposal p
AuthFor(p, user_glossary) ==
    {u \in Range(user_glossary) : SameIgnoringCase(u.eng, p.eng)}

\* Proposal p contradicts an authoritative entry: a non-empty target that differs
Conflicts(p, user_glossary) ==
    \E u \in AuthFor(p, user_glossary) : strip(u.zh) # <<>> /\ strip(u.zh) # p.zh

\* A step of UpdateGlobalMemory: the merge of new_terms' into global_memory
MergeTaken == pc = "merge" /\ pc' # "merge"

\* The proposals of terms from k on that the merge has to append to glossary:
\* no authoritative entry has the source term, no learned entry has exactly
\* the source term, and no earlier proposal of the batch has it
RECURSIVE ToAppend(_, _, _, _)
ToAppend(terms, k, glossary, user_glossary) ==
    IF k > Len(terms) THEN <<>>
    ELSE (IF /\ AuthFor(terms[k], user_glossary) = {}
             /\ terms[k].eng \notin Engs(glossary)
             /\ \A j \in 1..(k - 1) : terms[j].eng # terms[k].eng
          THEN <<terms[k]>> ELSE <<>>)
         \o ToAppend(terms, k + 1, glossary, user_glossary)

\* The learned glossary of a merge step before eviction
Merged ==
    global_memory.glossary
        \o ToAppend(new_terms', 1, global_memory.glossary, global_memory.user_glossary)

\* The last n entries of a sequence
LastN(seq, n) == SubSeq(seq, Len(seq) - n + 1, Len(seq))

NoDuplicateEng(glossary) ==
    \A j, k \in 1..Len(glossary) : j # k => glossary[j].eng # glossary[k].eng

\* C6: under the lock policy a proposal whose source term equals, ignoring
\* case, that of an authoritative entry is never appended to the learned
\* glossary; it is counted as a conflict exactly when the authoritative target
\* is non-empty and differs from the proposed one, and as a duplicate of the
\* authoritative entry otherwise.
C6_LockedProposalsRejected ==
    [][ (MergeTaken /\ config.glossary_policy = "lock") =>
          LET ug == global_memory.user_glossary
              locked == {k \in 1..Len(new_terms') : AuthFor(new_terms'[k], ug) # {}}
              conflicting == {k \in locked : Conflicts(new_terms'[k], ug)}
          IN  /\ report'.skipped_conflict = Cardinality(conflicting)
              /\ report'.skipped_user_dup = Cardinality(locked \ conflicting)
              /\ \A k \in 1..Len(global_memory'.glossary) :
                    AuthFor(global_memory'.glossary[k], ug) # {} =>
                        global_memory'.glossary[k] \in Range(global_memory.glossary)
      ]_vars

\* C6 witness: a merge that counted a conflict and a duplicate of an
\* authoritative entry
C6_Witness ==
    /\ report.skipped_conflict = 1
    /\ report.skipped_user_dup = 1
    /\ Len(new_terms) = 2
    /\ global_memory.user_glossary # <<>>

\* C7: under the lock policy no source term is, ignoring case, in both the
\* authoritative and the learned glossary, in every state of a run: after
\* seeding, after each merge and after each compression.
C7_NoTermInBothGlossaries ==
    config.glossary_policy = "lock" =>
        \A u \in Range(global_memory.user_glossary) :
            \A l \in Range(global_memory.glossary) :
                ~SameIgnoringCase(u.eng, l.eng)

\* C7 witness: both glossaries hold entries after a merge that accepted a
\* proposal and rejected another for the lock
C7_Witness ==
    /\ global_memory.user_glossary # <<>>
    /\ Len(global_memory.glossary) >= 2
    /\ report.added >= 1
    /\ report.skipped_conflict + report.skipped_user_dup >= 1

\* C8 as stated: for every configured maximum, the learned glossary never
\* holds more entries than the maximum.
C8_LearnedWithinAnyMaximum ==
    Len(global_memory.glossary) <= config.glossary_max_entries

\* C8 amended: for every configured maximum of at least 1, the learned
\* glossary never holds more entries than the maximum, in every state of a
\* run (a maximum of 0 switches the limit off).
C8_LearnedWithinMaximum ==
    config.glossary_max_entries >= 1 =>
        Len(global_memory.glossary) <= config.glossary_max_entries

\* C8 witness: between two batches the learned glossary is full, an earlier
\* merge having evicted
C8_Witness ==
    /\ pc = "refine"
    /\ config.glossary_max_entries = 3
    /\ Len(global_memory.glossary) = 3
    /\ Cardinality(learned) >= 4

\* C9 as stated: when the merged learned glossary holds more than max_entries
\* entries, the merge keeps exactly its max_entries most recent entries.
C9_EvictionForEveryMaximum ==
    [][ (MergeTaken /\ Len(Merged) > config.glossary_max_entries) =>
          global_memory'.glossary = LastN(Merged, config.glossary_max_entries)
      ]_vars

\* C9 amended: for max_entries >= 1, a merged learned glossary of more than
\* max_entries entries is cut to its max_entries most recent entries, in their
\* order; anything shorter is kept whole, and max_entries = 0 switches the
\* limit off (the merged glossary is kept whole).
C9_EvictionForPositiveMaximum ==
    [][ MergeTaken =>
          LET max_entries == config.glossary_max_entries
          IN  IF max_entries >= 1 /\ Len(Merged) > max_entries
              THEN global_memory'.glossary = LastN(Merged, max_entries)
              ELSE global_memory'.glossary = Merged
      ]_vars

\* C9 witness: max_entries = 3 and five distinct terms accepted over the run,
\* the last merge evicting: the learned glossary holds three entries
C9_Witness ==
    /\ config.glossary_max_entries = 3
    /\ config.memory_token_limit = 4000
    /\ Cardinality(learned) = 5
    /\ report.added >= 1
    /\ Len(global_memory.glossary) = 3
    /\ NoDuplicateEng(global_memory.glossary)

\* C10 as stated: a proposal whose source term was accepted earlier in the
\* run is rejected: the merge does not add its term to the learned glossary.
\* (Runs whose memory budget is never exceeded: no compression takes part.)
C10_AcceptedOnceNeverAgain ==
    [][ (MergeTaken /\ config.memory_token_limit = 4000) =>
          \A k \in 1..Len(new_terms') :
              (new_terms'[k].eng \in learned
                  /\ new_terms'[k].eng \notin Engs(global_memory.glossary))
              => new_terms'[k].eng \notin Engs(global_memory'.glossary)
      ]_vars

\* C10 amended: the merge appends, in proposal order and at the end of the
\* learned glossary, exactly the proposals that match no authoritative entry
\* and whose exact source term is neither in the learned glossary as the
\* merge finds it nor proposed earlier in the batch (the result is a suffix of
\* that list, by eviction); so a merge never creates two entries with the same
\* exact source term.  A term that eviction has dropped is accepted again.
C10_AppendOnlyUnknownTerms ==
    [][ MergeTaken =>
          /\ \E d \in 0..Len(Merged) :
                global_memory'.glossary = LastN(Merged, Len(Merged) - d)
          /\ report'.added = Len(Merged) - Len(global_memory.glossary)
          /\ (NoDuplicateEng(global_memory.glossary)
                => NoDuplicateEng(global_memory'.glossary))
      ]_vars

\* C10 witness: a merge that appended one proposal and rejected another as
\* already learned
C10_Witness ==
    /\ report.added = 1
    /\ report.skipped_existing = 1
    /\ Len(global_memory.glossary) >= 2

----------------------------------------------------------------------------
(* Properties of the batch loop and of compression, checked under Spec *)

\* The seeding of the user glossary is over
Seeded == pc \notin {"start", "config_error", "seed"}

\* A step of RefineFail: refine_chunk raised for batch i
BatchFailed == pc = "refine" /\ pc' # "merge" /\ attempted' # attempted

\* A step of CompressMemory, and one that installed the oracle's memory
CompressTaken == pc = "compress" /\ pc' # "compress"
CompressAccepted == CompressTaken /\ warning' # "compression failed"

\* C11 as stated: once seeded, the authoritative glossary equals its seeded
\* value in every later state of the run.
C11_AuthoritativeGlossaryImmutable ==
    Seeded => global_memory.user_glossary = config.custom_prompt_glossary

\* C12: a batch whose refinement call fails is a no-op: the memory, the text
\* of every pair and the accumulated usage are what they were, and the run
\* goes on to the next batch (or to the output) without a merge or a
\* compression for the failed one.
C12_FailedBatchIsNoOp ==
    [][ BatchFailed =>
          /\ global_memory' = global_memory
          /\ pairs' = pairs
          /\ total_usage' = total_usage
          /\ pc' \in {"refine", "output"}
          /\ i' = i + 1
          /\ report' = NoReport /\ compress_response' = None
      ]_vars

\* C12 witness: the second batch failed after the first had been refined:
\* the first pair is corrected, the second is not, usage and memory are those
\* of the first batch
C12_Witness ==
    /\ warning = "chunk skipped"
    /\ i = 2
    /\ pairs[1].text = "corrected"
    /\ pairs[2].text = "original"
    /\ total_usage >= 1
    /\ global_memory.glossary # <<>>

\* C13 as stated, its safety part: no response of an oracle stops the run;
\* process_subtitles never ends without producing the output.
C13_OracleNeverStopsRun == pc # "aborted"
\* C14: batches are attempted one at a time in batch-list order, each at most
\* once: the indexes handed to refine_chunk are 0, 1, 2, ... without gap or
\* repeat.  The prompt of batch i is rendered from the memory as the batches
\* before i left it, and no batch is handed to refine_chunk while the merge
\* or the compression of the batch before is pending.
C14_BatchesInOrderOnCurrentMemory ==
    [][ /\ \A k \in 1..Len(attempted') : attempted'[k] = k - 1
        /\ (attempted' # attempted =>
               /\ pc = "refine"
               /\ attempted' = Append(attempted, i)
               /\ system_prompt' =
                     Some(_build_terminology_section(
                              _merge_glossaries(config.template_glossary,
                                                global_memory.user_glossary),
                              global_memory.glossary)))
        /\ (pc \in {"merge", "compress"} =>
               /\ attempted' = attempted
               /\ Len(attempted) = i + 1
               /\ i' \in {i, i + 1})
      ]_vars

\* C14 witness: the third batch has been refined on a prompt that shows the
\* terms learned from the first two
C14_Witness ==
    /\ pc = "merge"
    /\ attempted = <<0, 1, 2>>
    /\ system_prompt # None
    /\ Len(system_prompt[1].supplement) >= 2

\* The response fails structural validation, or the call failed
StructurallyInvalid(resp) ==
    \/ ~resp.ok
    \/ "glossary" \notin DOMAIN resp.body
    \/ \E k \in 1..Len(resp.body.glossary) :
          \/ ~IsDict(resp.body.glossary[k])
          \/ ~({"eng", "zh"} \subseteq DOMAIN resp.body.glossary[k])

\* C15: when the compression call fails or its output fails structural
\* validation, the memory after the attempt equals the memory before it, a
\* warning is printed and the run continues with the next batch.
C15_InvalidCompressionKeepsMemory ==
    [][ (CompressTaken /\ StructurallyInvalid(compress_response'[1])) =>
          /\ global_memory' = global_memory
          /\ warning' = "compression failed"
          /\ pc' \in {"refine", "output"}
          /\ total_usage' = total_usage
      ]_vars

\* C15 witness: the oracle answered with an object without glossary; the
\* memory is still the uncompressed one
C15_Witness ==
    /\ compress_response # None
    /\ compress_response[1].ok
    /\ "glossary" \notin DOMAIN compress_response[1].body
    /\ warning = "compression failed"
    /\ Len(global_memory.glossary) >= 2

\* The response is a memory object that is valid in the full sense: all four
\* fields, every glossary entry an object with non-empty eng and zh
FullyValid(resp) ==
    /\ resp.ok
    /\ {"user_glossary", "glossary", "style_notes", "summary"} \subseteq DOMAIN resp.body
    /\ \A key \in {"user_glossary", "glossary"} :
          \A k \in 1..Len(resp.body[key]) :
              /\ IsDict(resp.body[key][k])
              /\ {"eng", "zh"} \subseteq DOMAIN resp.body[key][k]
              /\ resp.body[key][k].eng # <<>>
              /\ resp.body[key][k].zh # <<>>

\* C16 as stated: a compression result is accepted only if it is valid in the
\* full sense.
C16_AcceptedOnlyIfFullyValid ==
    [][ CompressAccepted => FullyValid(compress_response'[1]) ]_vars

\* C17 as stated: a compression result that is a valid memory object is
\* accepted, and the memory after the call is that object.
C17_ValidResultReplacesMemory ==
    [][ (CompressTaken /\ FullyValid(compress_response'[1])) =>
          global_memory' = compress_response'[1].body
      ]_vars

\* C18 as stated: the merge returns, with the new state, the four counts, and
\* they sum to the number of proposals with non-empty terms.  (The value
\* returned is what the run stores as global_memory.)
C18_MergeReturnsReport ==
    [][ MergeTaken =>
          /\ {"added", "skipped_conflict", "skipped_user_dup", "skipped_existing"}
                \subseteq DOMAIN global_memory'
          /\ report'.added + report'.skipped_conflict + report'.skipped_user_dup
                + report'.skipped_existing
             = Cardinality({k \in 1..Len(new_terms') :
                               new_terms'[k].eng # <<>> /\ new_terms'[k].zh # <<>>})
      ]_vars

\* C19 as stated: the text whose tokens estimate_memory_tokens counts is the
\* memory text of the prompt: for the memory a batch is refined on, the two
\* have the same length, and so the same estimate.
C19_EstimateMeasuresPromptText ==
    (pc = "merge" /\ global_memory # init_global_memory) =>
        /\ MemorySectionLen(global_memory) = system_prompt[1].len
        /\ estimate_memory_tokens(global_memory) = estimate_tokens(system_prompt[1].len)

----------------------------------------------------------------------------
(* Properties of the start of main, checked under SpecStart *)

\* C20 as stated: with no api_key given and no OPENAI_API_KEY in the
\* environment, loading the configuration fails and the run stops before
\* anything is chunked or sent.
C20_AbsentCredentialIsFatal ==
    [][ (pc = "start" /\ config.api_key = "" /\ OPENAI_API_KEY = None) =>
          pc' \in {"start", "config_error"}
      ]_vars

----------------------------------------------------------------------------
(* Invariant violations of the batcher, checked under SpecStart *)

\* How often id occurs among the pairs of ps
Occurrences(ps, id) == Cardinality({k \in 1..Len(ps) : ps[k].id = id})

\* The multiset of ids of the batches is the multiset of ids of the input
CoversExactlyOnce(original_pairs, chunk_list) ==
    \A id \in {p.id : p \in Range(original_pairs) \cup Range(Flatten(chunk_list))} :
        Occurrences(Flatten(chunk_list), id) = Occurrences(original_pairs, id)

\* Batch lists made of the pairs of the store: ids missing, repeated in a
\* batch, repeated across batches, or covered
CandidateBatchLists == SeqUpTo(SeqUpTo(Range(pairs), 2), 2) \cup {chunks, ProcessedChunks}

\* C21 (second half, on its own): validate_chunks accepts a batch list
\* exactly when the multiset of its pair ids is the multiset of the input ids
C21_ValidatorAcceptsExactlyCoverings ==
    \A chunk_list \in CandidateBatchLists :
        validate_chunks(pairs, chunk_list) <=> CoversExactlyOnce(pairs, chunk_list)

\* C21: a batch is handed to the refinement oracle only if the batch list the
\* loop goes through covers the input ids exactly once (otherwise the run has
\* failed before any batch), and validate_chunks accepts exactly the batch
\* lists that cover the input ids exactly once
C21_UncoveredBatchListStopsRun ==
    /\ attempted # <<>> => CoversExactlyOnce(pairs, ProcessedChunks)
    /\ C21_ValidatorAcceptsExactlyCoverings

----------------------------------------------------------------------------
(* Properties of functions called on their own, checked under SpecUnit *)

HasReturned(fn) == pc = "returned" /\ call.fn = fn

\* The raw entry passes the filter: non-empty trimmed terms, a confidence at
\* or above the threshold, a category of the enum
PassesFilter(item, min_confidence) ==
    /\ strip(item.eng) # <<>>
    /\ strip(item.zh) # <<>>
    /\ item.confidence >= min_confidence
    /\ lower(item.type) \in VALID_TERMINOLOGY_TYPES

\* The entry made of a raw entry: trimmed terms, category in lower case
Normalized(item) ==
    [eng |-> strip(item.eng), zh |-> strip(item.zh), type |-> lower(item.type),
     confidence |-> item.confidence]

\* The raw entries that pass, in input order
Filtered(raw_data, min_confidence) ==
    LET kept == KeepAt(raw_data, 1, {k \in 1..Len(raw_data) :
                                        PassesFilter(raw_data[k], min_confidence)})
    IN  [k \in 1..Len(kept) |-> Normalized(kept[k])]

\* s is t with some elements left out
RECURSIVE IsSubsequence(_, _)
IsSubsequence(s, t) ==
    IF s = <<>> THEN TRUE
    ELSE IF t = <<>> THEN FALSE
    ELSE IF Head(s) = Head(t) THEN IsSubsequence(Tail(s), Tail(t))
    ELSE IsSubsequence(s, Tail(t))

\* C22: _parse_terminology_entries returns exactly the raw entries with
\* non-empty trimmed terms, a confidence at or above min_confidence and a
\* valid category, in input order; what it returns at a threshold it also
\* returns at every lower threshold; of the entries with confidence 0.8 and
\* 0.5 one is kept at 0.6 and both at 0.4
C22_ParseKeepsExactlyEntriesPassing ==
    HasReturned("_parse_terminology_entries") =>
        /\ result[1] = Filtered(call.raw_data, call.min_confidence)
        /\ \A e \in Range(result[1]) :
              /\ e.eng # <<>> /\ e.zh # <<>>
              /\ e.confidence >= call.min_confidence
              /\ e.type \in VALID_TERMINOLOGY_TYPES
        /\ \A lower_threshold \in 0..call.min_confidence :
              IsSubsequence(result[1],
                            _parse_terminology_entries(call.raw_data, lower_threshold))
        /\ call.raw_data = DemoRaw =>
              Len(result[1]) = (IF call.min_confidence = 6 THEN 1 ELSE 2)

\* An entry at the threshold is kept, one below it, one of an unknown
\* category and one with a blank term are dropped
C22_Witness ==
    /\ HasReturned("_parse_terminology_entries")
    /\ call.min_confidence = 6
    /\ call.raw_data = <<RawItem(<<"A">>, <<"y">>, "person", 6),
                         RawItem(<<"B">>, <<"x">>, "person", 5)>>
    /\ Len(result[1]) = 1

\* C23: a proposal that does not pass the filter (confidence below the
\* configured minimum, category outside the enum, or a blank term) and is
\* passed to the merge is not in the learned glossary the merge returns
C23_MergeIgnoresLeakedProposals ==
    HasReturned("update_global_memory") =>
        \A k \in 1..Len(call.new_terms) :
            ~PassesFilter(call.new_terms[k], terminology_min_confidence) =>
                call.new_terms[k] \notin Range(result[1].glossary)

\* C23 (the part that holds): a proposal with a blank term is ignored
C23_MergeIgnoresBlankTerms ==
    HasReturned("update_global_memory") =>
        \A k \in 1..Len(call.new_terms) :
            strip(call.new_terms[k].eng) = <<>> \/ strip(call.new_terms[k].zh) = <<>> =>
                call.new_terms[k] \notin Range(result[1].glossary)

\* The k most recent entries of seq, all of them when there are fewer
MostRecent(seq, k) == IF k >= Len(seq) THEN seq ELSE SubSeq(seq, Len(seq) - k + 1, Len(seq))

\* The first characters of a text, up to the cap
Prefix(text, cap) == IF Len(text) <= cap THEN text ELSE SubSeq(text, 1, cap)

SimpleResultIsTruncation ==
    /\ result[1].glossary = MostRecent(call.memory.glossary, call.max_entries)
    /\ Len(result[1].glossary) <= call.max_entries
    /\ result[1].style_notes = Prefix(call.memory.style_notes, 500)
    /\ result[1].summary = Prefix(call.memory.summary, 500)

\* C24: for every k >= 0, compress_memory_simple(state, k) returns the k most
\* recent learned entries in their order (all when there are fewer), at most
\* k of them, and the prefixes of at most 500 characters of style notes and
\* summary
C24_SimpleCompressionKeepsMostRecent ==
    HasReturned("compress_memory_simple") => SimpleResultIsTruncation

\* C24 for k >= 1
C24_SimpleCompressionForPositiveK ==
    HasReturned("compress_memory_simple") /\ call.max_entries >= 1 =>
        SimpleResultIsTruncation

\* The header lines of a text, stripped, in document order
HeaderLines(text) ==
    LET lines == splitlines(text)
        stripped == [k \in 1..Len(lines) |-> strip(lines[k])]
    IN  KeepAt(stripped, 1, {k \in 1..Len(lines) : IsHeader(stripped[k])})

\* The lines of a text that are neither headers nor blank, in document order
BodyLines(text) ==
    LET lines == splitlines(text)
    IN  KeepAt(lines, 1, {k \in 1..Len(lines) :
                             ~IsHeader(strip(lines[k])) /\ lines[k] # <<>>})

\* The titles of the sections, numbers left out, in document order
NormalizedTitles(text) ==
    [k \in 1..Len(HeaderLines(text)) |-> _normalize_section_title(HeaderLines(text)[k])]

\* The k-th header is "### k. title"
NumberedInOrder(text) ==
    \A k \in 1..Len(HeaderLines(text)) :
        HeaderLines(text)[k] =
            <<"#", "#", "#", " ">> \o Str(k) \o <<".", " ">> \o NormalizedTitles(text)[k]

\* What _renumber_sections returns is numbered 1, 2, 3, ... in order, with
\* the titles and the other lines of its argument
RenumberedAsClaimed ==
    /\ NumberedInOrder(result[1])
    /\ NormalizedTitles(result[1]) = NormalizedTitles(call.template)
    /\ BodyLines(result[1]) = BodyLines(call.template)
    /\ call.template = join(<<<<"#", "#", "#", " ", "3", ".", " ", "T">>,
                              <<"#", "#", "#", " ", "7", ".", " ", "U">>,
                              <<"#", "#", "#", " ", "1", ".", " ", "V">>>>) =>
          result[1] = join(<<<<"#", "#", "#", " ", "1", ".", " ", "T">>,
                             <<"#", "#", "#", " ", "2", ".", " ", "U">>,
                             <<"#", "#", "#", " ", "3", ".", " ", "V">>>>)

\* C25: the sections are numbered 1, 2, 3, ... in document order, titles and
\* order unchanged ([3, 7, 1] become [1, 2, 3]), and renumbering the
\* renumbered text changes nothing
C25_RenumberingChangesNothingTwice ==
    HasReturned("_renumber_sections") =>
        /\ RenumberedAsClaimed
        /\ _renumber_sections(result[1]) = result[1]

\* C25, amended: ... and renumbering the renumbered text changes no header
\* and no line; it returns the same text, less its final line break when it
\* ends with one
C25_RenumberingKeepsLinesTwice ==
    HasReturned("_renumber_sections") =>
        /\ RenumberedAsClaimed
        /\ LET once == result[1]
               twice == _renumber_sections(once)
           IN  /\ HeaderLines(twice) = HeaderLines(once)
               /\ BodyLines(twice) = BodyLines(once)
               /\ IF once # <<>> /\ once[Len(once)] = "\n"
                  THEN twice = SubSeq(once, 1, Len(once) - 1)
                  ELSE twice = once

\* Sections numbered 3, 7 and 1, the text ending with a blank line
C25_Witness ==
    /\ HasReturned("_renumber_sections")
    /\ call.template = join(<<<<"#", "#", "#", " ", "3", ".", " ", "T">>,
                              <<"#", "#", "#", " ", "7", ".", " ", "U">>,
                              <<"#", "#", "#", " ", "1", ".", " ", "V">>>>) \o <<"\n", "\n">>
    /\ Len(HeaderLines(result[1])) = 3
    /\ result[1][Len(result[1])] = "\n"

\* The template has a section whose normalized title is the designated one
HasTerminologySection(template) ==
    \E k \in 1..Len(HeaderLines(template)) :
        _normalize_section_title(HeaderLines(template)[k]) = TARGET_SECTION

\* C26: when the template has no section with the designated title,
\* rendering raises nothing, returns the template as it is (not substituted,
\* not renumbered) and reports a warning, whatever the memory
C26_MissingSectionReturnsTemplate ==
    HasReturned("inject_memory_into_template") /\ ~HasTerminologySection(call.template) =>
        /\ "raised" \notin DOMAIN result[1]
        /\ result[1].text = call.template
        /\ result[1].warning # ""

\* A template whose only section is numbered 3, ending with a line break,
\* rendered with a memory that cannot be rendered
C26_Witness ==
    /\ HasReturned("inject_memory_into_template")
    /\ call.template = <<"#", "#", "#", " ", "3", ".", " ", "T", "\n">>
    /\ ~Renderable(call.memory)
    /\ result[1].text = call.template
    /\ result[1].warning = "section not found"

\* The tokens of a text outside its comments, line breaks kept: "<!--"
\* opens a comment, the next "-->" closes it
RECURSIVE OutsideComments(_, _, _)
OutsideComments(text, k, inside) ==
    IF k > Len(text) THEN <<>>
    ELSE IF inside
    THEN IF text[k] = "-->" THEN OutsideComments(text, k + 1, FALSE)
         ELSE (IF text[k] = "\n" THEN <<"\n">> ELSE <<>>) \o OutsideComments(text, k + 1, TRUE)
    ELSE IF text[k] = "<!--" THEN OutsideComments(text, k + 1, TRUE)
         ELSE <<text[k]>> \o OutsideComments(text, k + 1, FALSE)

\* The lines of the text without its comments that are not blank and are
\* not one of the two headers
CandidateLines(text) ==
    LET lines == splitlines(OutsideComments(text, 1, FALSE))
    IN  KeepAt(lines, 1, {k \in 1..Len(lines) :
                             strip(lines[k]) # <<>> /\ strip(lines[k]) \notin skip_prefixes})

\* A bullet, a blank, and an arrow with something on both sides
IsBulletLine(line) ==
    LET l == lstrip(line)
    IN  /\ Len(l) >= 2 /\ l[1] \in {"-", "*"} /\ l[2] = " "
        /\ \E a \in 4..(Len(l) - 1) : l[a] = "->"

\* The term and the translation of a bullet line, around its first arrow
BulletEntry(line) ==
    LET l == lstrip(line)
        a == CHOOSE a \in 4..(Len(l) - 1) :
                 l[a] = "->" /\ \A b \in 4..(a - 1) : l[b] # "->"
    IN  [eng |-> strip(SubSeq(l, 3, a - 1)), zh |-> strip(SubSeq(l, a + 1, Len(l)))]

\* A bullet line 'Term -> translation': neither side is blank
IsEntryLine(line) ==
    IsBulletLine(line) /\ BulletEntry(line).eng # <<>> /\ BulletEntry(line).zh # <<>>

EntryLines(text) ==
    LET lines == CandidateLines(text)
    IN  KeepAt(lines, 1, {k \in 1..Len(lines) : IsEntryLine(lines[k])})

GlossaryAsClaimed ==
    result[1].glossary =
        [k \in 1..Len(EntryLines(call.text)) |-> BulletEntry(EntryLines(call.text)[k])]

\* C27: comments are in neither output, every bullet line 'Term ->
\* translation' is a glossary entry, in input order, and every other line
\* that is not blank and is not one of the two headers is in the
\* instructions, in order
C27_SplitKeepsEveryOtherLine ==
    HasReturned("split_user_prompt_and_glossary") =>
        /\ GlossaryAsClaimed
        /\ LET lines == CandidateLines(call.text)
               others == KeepAt(lines, 1, {k \in 1..Len(lines) : ~IsEntryLine(lines[k])})
           IN  result[1].instructions = strip_text(join(others))

\* C27, amended: ... and every other such line is in the instructions, in
\* order, except the bullet lines whose term or translation is blank, which
\* are in neither output
C27_SplitDropsBlankBullets ==
    HasReturned("split_user_prompt_and_glossary") =>
        /\ GlossaryAsClaimed
        /\ LET lines == CandidateLines(call.text)
               others == KeepAt(lines, 1, {k \in 1..Len(lines) : ~IsBulletLine(lines[k])})
           IN  result[1].instructions = strip_text(join(others))
        /\ \A k \in 1..Len(result[1].instructions) :
              result[1].instructions[k] # "<!--"

\* The sample of the test: four entries in order, two lines of instructions
C27_Witness ==
    /\ HasReturned("split_user_prompt_and_glossary")
    /\ call.text = SamplePrompt
    /\ result[1].instructions = <<"t", "\n", "u">>
    /\ result[1].glossary = <<UserEntry(<<"A">>, <<"x">>), UserEntry(<<"B">>, <<"y">>),
                              UserEntry(<<"C">>, <<"x">>), UserEntry(<<"D">>, <<"y">>)>>

----------------------------------------------------------------------------
(* call_openai_api, checked under SpecApi *)

Retryable(reply) ==
    reply.kind = "timeout"
    \/ (reply.kind = "http" /\ reply.status_code # None /\ reply.status_code[1] >= 500)

\* At most max_retries requests are sent; a request is followed by another
\* only after a timeout or a status >= 500; the call ends with the response
\* text and usage or with LLMAPIError, and with LLMAPIError after a timeout
\* or a server error only when no attempt remains
ApiCallAsClaimed ==
    call.fn = "call_openai_api" =>
        /\ Len(call.sent) <= call.max_retries
        /\ \A k \in 1..(Len(call.sent) - 1) : Retryable(call.sent[k])
        /\ pc = "loop" => \A k \in 1..Len(call.sent) : Retryable(call.sent[k])
        /\ pc = "returned" =>
              /\ result # None
              /\ result[1] = LLMAPIError \/ DOMAIN result[1] = {"response_text", "usage"}
              /\ result[1] # LLMAPIError <=>
                    (call.sent # <<>> /\ call.sent[Len(call.sent)].kind = "ok")
              /\ call.sent # <<>> /\ Retryable(call.sent[Len(call.sent)]) =>
                    Len(call.sent) = call.max_retries
              /\ call.max_retries = 0 => call.sent = <<>> /\ result[1] = LLMAPIError

\* C28: call_openai_api sends at most max_retries requests, retries only
\* after a timeout or a status >= 500 and only while attempts remain, ends
\* with the response or with LLMAPIError (without a request when max_retries
\* is 0), and always ends
C28_ApiCallTerminatesWithinRetries ==
    []ApiCallAsClaimed /\ <>(pc = "returned")

\* Two retries, after a timeout and a server error, then the response
C28_Witness ==
    /\ pc = "returned"
    /\ call.fn = "call_openai_api"
    /\ call.max_retries = 3
    /\ call.sent = <<[kind |-> "timeout"], [kind |-> "http", status_code |-> Some(503)],
                     [kind |-> "ok"]>>
    /\ result[1] # LLMAPIError


-----------------------------------------------------------------------------
\* Properties of the corrections applied to the pairs

\* The pair at position k belongs to the batch being processed
InCurrentBatch(k) ==
    \E m \in 1..Len(chunks[i + 1]) : chunks[i + 1][m].id = pairs[k].id

\* No step changes the number of pairs, their ids or their token counts
\* (main.py:42-62 assigns the two text fields only); holds
C29_StoreShapeNeverChanges ==
    [][ /\ Len(pairs') = Len(pairs)
        /\ \A k \in 1..Len(pairs) :
              pairs'[k].id = pairs[k].id /\ pairs'[k].tokens = pairs[k].tokens
      ]_vars

\* C29 as stated: processing a batch changes only the text of the pairs of
\* that batch, whatever ids the refinement oracle returns: the text of every
\* pair outside the batch is what it was, and the number of pairs, their ids
\* and their metadata never change.
C29_BatchChangesOnlyItsPairs ==
    [][ /\ Len(pairs') = Len(pairs)
        /\ \A k \in 1..Len(pairs) :
              /\ pairs'[k].id = pairs[k].id
              /\ pairs'[k].tokens = pairs[k].tokens
              /\ pairs'[k].text # pairs[k].text =>
                    pc = "refine" /\ InCurrentBatch(k)
      ]_vars


-----------------------------------------------------------------------------
\* Properties of the rendered terminology section

\* The authoritative list and the learned supplement of the prompt rendered
\* last
RenderedAuthoritative == system_prompt[1].authoritative
RenderedSupplement == system_prompt[1].supplement

\* A learned term of the supplement has the source term of a rendered
\* authoritative entry, letter case apart
SupplementRestatesAuthoritative ==
    \E s \in 1..Len(RenderedSupplement), a \in 1..Len(RenderedAuthoritative) :
        casefold(RenderedSupplement[s].eng) = casefold(RenderedAuthoritative[a].eng)

\* Restricted to the runtime authoritative entries, which are the ones
\* update_global_memory consults (memory.py:269): no learned term of the
\* supplement has the source term of one of them; holds
C30_SupplementDisjointFromRuntimeEntries ==
    system_prompt # None =>
        \A s \in 1..Len(RenderedSupplement), u \in 1..Len(global_memory.user_glossary) :
            casefold(RenderedSupplement[s].eng)
                # casefold(strip(global_memory.user_glossary[u].eng))

\* C30 as stated: in every rendered prompt, no term of the learned supplement
\* has a source term equal, case-insensitively, to that of an entry of the
\* authoritative list rendered in the same section (the entries the template
\* declares merged with the runtime authoritative entries).
C30_SupplementNeverRestatesAuthoritative ==
    system_prompt # None => ~SupplementRestatesAuthoritative

====
